---- MODULE Spec2Model ----
(***************************************************************************)
(* Model of the lightroom-AI processing pipeline.                          *)
(*                                                                         *)
(*  - SpecRun: BatchProcessor.run / process_batch / process_image         *)
(*    (src/lightroom_ai/batch_processor.py) with the CheckpointManager     *)
(*    (src/lightroom_ai/checkpoint_manager.py).                            *)
(*  - SpecDb: CatalogDatabase.cursor / _connect / update_image_metadata   *)
(*    (src/lightroom_ai/catalog_db.py).                                    *)
(***************************************************************************)
EXTENDS Integers, Sequences, FiniteSets, TLC

\* ------------------------------------------------------------------ bounds
\* Number of candidate records returned by get_images (ids 1..NumImages).
NumImages == 3
\* Largest configured batch_size explored.
MaxBatchSize == 2
\* Largest configured checkpoint_interval explored.
MaxInterval == 2
\* Largest configured max_workers explored (1 = sequential, > 1 = pooled).
MaxWorkers == 2
\* Largest configured max_retries of the catalog gateway (the default is 3; the write
\* path asks for 5).
MaxRetries == 5
\* Number of extract_jpeg_from_preview calls explored in a row.
MaxExtractCalls == 2
\* Largest number of files in the preview directories.
MaxFiles == 2
\* Number of locate_preview_file calls explored.
MaxLocates == 2
\* Number of ids the caller of the checkpoint store works with.
MaxStoreIds == 2
\* Number of checkpoint store calls explored in a row.
MaxStoreCalls == 3
\* The aesthetic scores explored, in tenths of a point (the providers clamp to 0..10; a
\* score outside that range reaches the catalog gateway when a provider does not).
BelowZeroTenths == 30
MinScoreTenths == 0 - BelowZeroTenths
MaxScoreTenths == 130
\* Number of _apply_aesthetic_score calls explored on one record.
MaxRatingCalls == 2
\* Largest memory_limit_mb and largest sampled resident memory explored, in MB.
MaxLimitMb == 5
MaxMemMb == 6
\* Largest number of entries in the preview location cache, and of batches, explored.
MaxCacheEntries == 2
MaxCheckedBatches == 2

VARIABLES
    \* ---- the catalog and the checkpoint file (persist across runs)
    catalog_tagged,            \* ids linked to the 'AI_Processed' keyword
    checkpoint_file,           \* ids stored in <catalog>.checkpoint.json
    \* ---- BatchProcessor configuration and input
    config,                    \* use_checkpoint, max_workers, batch_size, checkpoint_interval
    images,                    \* candidate records (their image ids), in query order
    \* ---- BatchProcessor.run locals and fields
    pc,                        \* position of run(): start, batch, process, final, done, aborted
    already_processed_ids,     \* run(): db.get_processed_images()
    checkpoint_processed_ids,  \* run(): checkpoint_manager.load_checkpoint()
    processed_ids,             \* run(): the in-memory checkpoint set
    remaining,                 \* run(): images after filtering
    stats,                     \* self.stats (ProcessingStats)
    i,                         \* run(): loop offset of the current batch
    \* ---- process_batch
    todo,                      \* records of the batch not yet handed to process_image
    running,                   \* pooled tasks inside process_image
    results,                   \* process_batch: results collected so far
    \* ---- history
    invoked,                   \* id -> number of process_image calls in this run
    returned,                  \* what the latest process_image call did and returned
    outcome,                   \* how the stages of that call behaved
    fault,                     \* ids of the current batch whose stage raised unexpectedly
    run_success,               \* ids whose result in this run was successful
    final_save,                \* "none", "ok" or "failed": the final save of this run
    flushed_batches,           \* the batch numbers after which run() called save_checkpoint
    save_failed,               \* a save_checkpoint of this run failed
    second_run,                \* TRUE in the run that follows a finished run
    previous_run               \* the statistics and save_failed of the finished first run

run_vars == <<catalog_tagged, checkpoint_file, config, images, pc, already_processed_ids,
              checkpoint_processed_ids, processed_ids, remaining, stats, i, todo, running,
              results, invoked, returned, outcome, fault, run_success, final_save, flushed_batches,
              save_failed, second_run, previous_run>>

VARIABLES
    \* ---- one call of a CatalogDatabase method that uses cursor()
    caller,        \* "update_image_metadata" or "get_processed_images"
    max_retries,   \* self.max_retries (config)
    retries,       \* cursor(): the retries argument, resolved
    db_pc,         \* idle, connect, begin, body, commit, returned
    retry_count,   \* cursor(): retry_count
    last_error,    \* cursor(): last_error
    waits,         \* the wait_time slept before each retry, in half seconds
    attempt_log,   \* how each pass of the while loop ended: [phase, error]
    conn_open,     \* cursor() is between _connect() and the close() of its finally clause
    opened,        \* connections opened by sqlite3.connect
    closed,        \* conn.close() calls
    step,          \* the statement of the with-body that runs next
    txn,           \* statements applied in the open transaction
    committed,     \* statements whose effect is committed to the catalog
    yields,        \* times the generator reached `yield cursor`
    commit_calls,  \* conn.commit() calls
    rollbacks,     \* conn.rollback() calls
    swallowed,     \* database errors caught inside the with-body
    db_error,      \* the exception that left cursor(), "none" if none
    db_result      \* what the caller's method returned: "none" while it runs

db_vars == <<caller, max_retries, retries, db_pc, retry_count, last_error, waits, attempt_log,
             conn_open, opened, closed, step, txn, committed, yields, commit_calls, rollbacks,
             swallowed, db_error, db_result>>

VARIABLES
    \* ---- calls of PreviewExtractor.extract_jpeg_from_preview
    ex_pc,            \* idle, open, the decode step that runs next, returned
    preview_kind,     \* what the preview path ends with ("" = empty path)
    header,           \* what the first 16 bytes of the file are
    ex_img,           \* the local img: 0 = None, k = bitmap k of this call
    bitmaps,          \* the bitmaps opened during this call, each open or closed
    tried,            \* the decode steps attempted in this call
    ex_result,        \* pending, "None" or "bitmap"
    returned_bitmap,  \* the bitmap the call returned (0 = none)
    ex_calls,         \* calls made so far
    ex_history        \* what the earlier calls returned

ex_vars == <<ex_pc, preview_kind, header, ex_img, bitmaps, tried, ex_result, returned_bitmap,
             ex_calls, ex_history>>

VARIABLES
    \* ---- PreviewExtractor.locate_preview_file for one record, and the preview directories
    fs,               \* the candidate files of each strategy, in directory-walk order
    preview_index,    \* FilesystemHelper.preview_index: basename candidates at construction
    loc_config,       \* the configuration switches that are on
    record,           \* whether the record carries a file / an image global id
    preview_cache,    \* _preview_cache[cache_key] of the record (NoPath = no entry)
    cache_hits,       \* _cache_hits
    cache_misses,     \* _cache_misses
    hash_lru,         \* the lru_cache entry of find_preview_by_hash for the record
    loc_calls,        \* locate calls made
    last_call,        \* the latest locate call: hit, path, strategies invoked / searched
    prev_call,        \* the locate call before it
    unchanged_since,  \* no file was removed since the latest locate call
    cleared_since     \* clear_cache ran since the latest locate call

loc_vars == <<fs, preview_index, loc_config, record, preview_cache, cache_hits, cache_misses,
              hash_lru, loc_calls, last_call, prev_call, unchanged_since, cleared_since>>

VARIABLES
    \* ---- a CheckpointManager and the caller that uses it
    ck_enabled,    \* self.config.use_checkpoint
    ck_file,       \* the checkpoint file: [kind, ids]
    ck_ids,        \* the caller's in-memory set of processed ids
    ck_step,       \* how many store calls the caller has got back from
    ck_last        \* the last store call: what it was given, what it returned, and the
                   \* caller's set and position right after it

ck_vars == <<ck_enabled, ck_file, ck_ids, ck_step, ck_last>>

VARIABLES
    \* ---- the statistics of one pooled batch, one attribute access at a time
    st_pc,         \* the run thread: "reset", "batch", "totals", "report", "done"
    st_lock,       \* the threads inside `with self.stats_lock`
    st_stats,      \* self.stats: the counters
    st_worker,     \* per pool thread: its item's result, the increments it makes and those
                   \* still to make, its position in `with self.stats_lock:
                   \* self.stats.x += 1`, the value read
    st_accesses,   \* the accesses to self.stats made so far: by whom, locked or not
    st_report      \* the dictionary run() returned

st_vars == <<st_pc, st_lock, st_stats, st_worker, st_accesses, st_report>>

VARIABLES
    \* ---- the rating of one catalog record under _apply_aesthetic_score
    rt_column,     \* Adobe_images has a 'rating' column
    rt_row,        \* the record exists in Adobe_images
    rt_rating,     \* the record's rating (NullRating: NULL)
    rt_calls,      \* calls made so far
    rt_last        \* the last call: the rating before it and the score it was given

rt_vars == <<rt_column, rt_row, rt_rating, rt_calls, rt_last>>

VARIABLES
    \* ---- the memory check at the end of each batch
    mc_limit,      \* self.config.memory_limit_mb (0: not configured)
    mc_cache,      \* entries in the preview location cache
    mc_batches,    \* batches processed
    mc_checks,     \* _check_memory_usage calls made
    mc_last        \* the last check: the probe, the memory sampled, what it did

mc_vars == <<mc_limit, mc_cache, mc_batches, mc_checks, mc_last>>

VARIABLES
    \* ---- a pooled run, compared with the sequential run over the same records
    eq_config,     \* use_checkpoint, max_workers (> 1), batch_size, checkpoint_interval
    eq_images,     \* the remaining records
    eq_outcomes,   \* what the stages of each record do, whichever thread runs them
    eq_pc,         \* unused, batch, process, final, done
    eq_i,          \* the loop variable i of run()
    eq_todo,       \* tasks submitted and not started
    eq_running,    \* tasks inside process_image
    eq_results,    \* the results process_batch has collected, in completion order
    eq_stats,      \* self.stats
    eq_ids,        \* processed_ids
    eq_file,       \* the ids in the checkpoint file
    eq_finished    \* the records in the order their tasks completed

eq_vars == <<eq_config, eq_images, eq_outcomes, eq_pc, eq_i, eq_todo, eq_running, eq_results,
             eq_stats, eq_ids, eq_file, eq_finished>>

aux_vars == <<ck_vars, st_vars, rt_vars, mc_vars, eq_vars>>

vars == <<run_vars, db_vars, ex_vars, loc_vars, aux_vars>>

Ids == 1..NumImages

Min(a, b) == IF a < b THEN a ELSE b

\* ------------------------------------------------------------ per-item stages
\* The five stage calls of process_image, in the order the code makes them.
StageCalls == <<"locate_preview_file", "extract_jpeg_from_preview", "process_image",
                "analyze_image", "update_image_metadata">>

\* What the stages of one item do: all succeed (at = 0), or stage `at` is the first that
\* fails, either by returning None / False ("none") or by raising ("raise").
NoFault == [at |-> 0, how |-> "none"]
Outcomes == {NoFault} \cup [at : 1..Len(StageCalls), how : {"none", "raise"}]

\* Mutant of ReturnsNone: the `if not img_b64` check after prepare is missing.
ReturnsNoneButPrepare(o, k) == o.at = k /\ o.how = "none" /\ k # 3

ReturnsNone(o, k) == o.at = k /\ o.how = "none"
Raises(o, k) == o.at = k /\ o.how = "raise"

\* The result dict process_image starts from, with the model's bookkeeping:
\* calls = the stage calls made, the four counters = the increments made under stats_lock,
\* raised = an exception left process_image.
InitResult(image_id) ==
    [image_id |-> image_id, success |-> FALSE, stage |-> "init", calls |-> <<>>,
     raised |-> FALSE, preview_found_count |-> 0, preview_extract_failures |-> 0,
     ai_call_failures |-> 0, db_update_failures |-> 0, decoded |-> FALSE, img_closes |-> 0]

\* extract_jpeg_from_preview was called and returned a bitmap (img is bound to it).
Decoded(o) == o.at = 0 \/ o.at > 2

\* image_processor.process_image returned, so `img.close(); img = None` ran.
PrepareReturned(o) == Decoded(o) /\ ~Raises(o, 3)

ImgAtFinallyNeverCleared(o) == IF Decoded(o) THEN "bitmap" ELSE "None"

\* The local img when the finally clause runs: None until extract returns a bitmap and
\* again after `img = None`.
ImgAtFinally(o) == IF Decoded(o) /\ ~PrepareReturned(o) THEN "bitmap" ELSE "None"

\* The close() calls made on the bitmap: the one after prepare and the one of finally.
ImgCloses(o) ==
    (IF PrepareReturned(o) THEN 1 ELSE 0) + (IF ImgAtFinally(o) # "None" THEN 1 ELSE 0)

\* Mutant of CaughtException: process_image has no outer handler and the exception leaves it.
EscapedException(result, calls) ==
    [result EXCEPT !.raised = TRUE, !.calls = calls]

\* except Exception (outer handler of process_image): stage 'exception', result returned.
CaughtException(result, calls) ==
    [result EXCEPT !.stage = "exception", !.calls = calls]

\* process_image with the stages behaving as `o` says.
ProcessImage(image_id, o) ==
    LET r0 == [InitResult(image_id) EXCEPT !.decoded = Decoded(o), !.img_closes = ImgCloses(o)]
        c1 == <<StageCalls[1]>>
        c2 == Append(c1, StageCalls[2])
        c3 == Append(c2, StageCalls[3])
        c4 == Append(c3, StageCalls[4])
        c5 == Append(c4, StageCalls[5])
        r1 == [r0 EXCEPT !.preview_found_count = 1]
    IN  IF Raises(o, 1) THEN CaughtException(r0, c1)
        ELSE IF ReturnsNone(o, 1)
            THEN [r0 EXCEPT !.stage = "locate_preview", !.calls = c1]
        ELSE IF Raises(o, 2) THEN CaughtException(r1, c2)
        ELSE IF ReturnsNone(o, 2)
            THEN [r1 EXCEPT !.stage = "extract_preview", !.calls = c2,
                            !.preview_extract_failures = 1]
        ELSE IF Raises(o, 3) THEN CaughtException(r1, c3)
        ELSE IF ReturnsNone(o, 3)
            THEN [r1 EXCEPT !.stage = "process_image", !.calls = c3]
        ELSE IF Raises(o, 4) THEN CaughtException(r1, c4)
        ELSE IF ReturnsNone(o, 4)
            THEN [r1 EXCEPT !.stage = "ai_analysis", !.calls = c4, !.ai_call_failures = 1]
        ELSE IF Raises(o, 5) \/ ReturnsNone(o, 5)
            THEN [r1 EXCEPT !.stage = "db_update", !.calls = c5, !.db_update_failures = 1]
        ELSE [r1 EXCEPT !.success = TRUE, !.stage = "complete", !.calls = c5]

\* The result dict as run() and process_batch read it (base_name and error left out).
Result(r) == [image_id |-> r.image_id, success |-> r.success, stage |-> r.stage]

\* The result process_batch records for a pooled task whose future raised.
ExecutorException(image_id) ==
    [image_id |-> image_id, success |-> FALSE, stage |-> "executor_exception"]

\* An unexpected exception: a stage before the catalog write raises (an exception in
\* update_image_metadata has its own handler and is a persistence failure).
Unexpected(o) == o.how = "raise" /\ o.at < Len(StageCalls)

\* ------------------------------------------------------------ run(): filtering
\* CheckpointManager.load_checkpoint.
LoadCheckpoint(use_checkpoint, file) == IF use_checkpoint THEN file ELSE {}

\* Mutant of ProcessedUnion: the checkpoint ids are left out of the union.
ProcessedUnionCatalogOnly(already, checkpoint) == already

\* run(): processed_ids = already_processed_ids.union(checkpoint_processed_ids)
ProcessedUnion(already, checkpoint) == already \cup checkpoint

\* Mutant of FilterImages: nothing is filtered out.
FilterImagesKeepAll(imgs, ids) == imgs

\* run(): images = [img for img in images if img[0] not in processed_ids]
FilterImages(imgs, ids) == SelectSeq(imgs, LAMBDA img : img \notin ids)

\* ProcessingStats() as run() resets it.
ProcessingStats ==
    [total_images |-> 0, processed_images |-> 0, successful_images |-> 0,
     failed_images |-> 0, skipped_images |-> 0, preview_found_count |-> 0,
     preview_extract_failures |-> 0, ai_call_failures |-> 0, db_update_failures |-> 0]

NoCalls == [id \in Ids |-> 0]

\* run() lines 276-310: load, union, filter, skipped/total, early return when nothing is left.
RunFilter ==
    /\ pc = "start"
    /\ LET already == catalog_tagged
           loaded == IF config.use_checkpoint
                        THEN LoadCheckpoint(config.use_checkpoint, checkpoint_file)
                        ELSE {}
           ids == ProcessedUnion(already, loaded)
           kept == IF ids # {} THEN FilterImages(images, ids) ELSE images
           skipped == IF ids # {} THEN Len(images) - Len(kept) ELSE 0
       IN  /\ already_processed_ids' = already
           /\ checkpoint_processed_ids' = loaded
           /\ processed_ids' = ids
           /\ remaining' = kept
           /\ stats' = [ProcessingStats EXCEPT !.skipped_images = skipped,
                                               !.total_images = Len(kept)]
           /\ pc' = IF Len(kept) = 0 THEN "done" ELSE "batch"
    /\ i' = 0
    /\ todo' = <<>>
    /\ running' = {}
    /\ results' = <<>>
    /\ invoked' = NoCalls
    /\ returned' = InitResult(0)
    /\ outcome' = NoFault
    /\ fault' = {}
    /\ run_success' = {}
    /\ final_save' = "none"
    /\ flushed_batches' = {}
    /\ save_failed' = FALSE
    /\ UNCHANGED <<catalog_tagged, checkpoint_file, config, images, second_run, previous_run,
                   db_vars, ex_vars, loc_vars, aux_vars>>

\* ------------------------------------------------------------ process_batch
\* Mutant of Batch: the slice is one record short.
BatchOneShort(imgs, offset, batch_size) ==
    SubSeq(imgs, offset + 1, Min(offset + batch_size, Len(imgs)) - 1)

\* run(): batch = images[i:i + self.batch_size]
Batch(imgs, offset, batch_size) == SubSeq(imgs, offset + 1, Min(offset + batch_size, Len(imgs)))

\* run() line 318-323: slice the next batch and enter process_batch (pooled: every task is
\* submitted to the executor before any result is collected).
BatchSubmit ==
    /\ pc = "batch"
    /\ todo' = Batch(remaining, i, config.batch_size)
    /\ running' = {}
    /\ results' = <<>>
    /\ fault' = {}
    /\ pc' = "process"
    /\ UNCHANGED <<catalog_tagged, checkpoint_file, config, images, already_processed_ids,
                   checkpoint_processed_ids, processed_ids, remaining, stats, i, invoked,
                   returned, outcome, run_success, final_save, flushed_batches, save_failed, second_run, previous_run,
                   db_vars, ex_vars, loc_vars, aux_vars>>

\* Mutant of AddCounters: ai_call_failures is incremented whenever analyze_image was
\* called, before its result is tested.
AddCountersAiOnCall(s, r) ==
    [s EXCEPT !.preview_found_count = @ + r.preview_found_count,
              !.preview_extract_failures = @ + r.preview_extract_failures,
              !.ai_call_failures = @ + (IF Len(r.calls) >= 4 THEN 1 ELSE 0),
              !.db_update_failures = @ + r.db_update_failures]

\* The increments process_image makes to self.stats under stats_lock.
AddCounters(s, r) ==
    [s EXCEPT !.preview_found_count = @ + r.preview_found_count,
              !.preview_extract_failures = @ + r.preview_extract_failures,
              !.ai_call_failures = @ + r.ai_call_failures,
              !.db_update_failures = @ + r.db_update_failures]

\* update_image_metadata committed: the record is linked to 'AI_Processed'.
TagIfSuccessful(tagged, r) == IF r.success THEN tagged \cup {r.image_id} ELSE tagged

\* process_batch, sequential branch (max_workers <= 1): one iteration of
\* `for img in images_batch: results.append(self.process_image(img))`.
\* An exception leaving process_image is not caught here and leaves run().
ProcessNext(o) ==
    /\ pc = "process"
    /\ config.max_workers <= 1
    /\ todo # <<>>
    /\ LET img == Head(todo)
           r == ProcessImage(img, o)
       IN  /\ invoked' = [invoked EXCEPT ![img] = @ + 1]
           /\ fault' = IF Unexpected(o) THEN fault \cup {img} ELSE fault
           /\ todo' = Tail(todo)
           /\ returned' = r
           /\ outcome' = o
           /\ stats' = AddCounters(stats, r)
           /\ catalog_tagged' = TagIfSuccessful(catalog_tagged, r)
           /\ run_success' = IF r.success THEN run_success \cup {img} ELSE run_success
           /\ IF r.raised
                 THEN pc' = "aborted" /\ UNCHANGED results
                 ELSE pc' = pc /\ results' = Append(results, Result(r))
    /\ UNCHANGED <<checkpoint_file, config, images, already_processed_ids,
                   checkpoint_processed_ids, processed_ids, remaining, i, running, final_save, flushed_batches,
                   save_failed, second_run, previous_run, db_vars, ex_vars, loc_vars, aux_vars>>

\* process_batch, pooled branch: a worker thread of the ThreadPoolExecutor takes the next
\* submitted task and enters process_image; at most max_workers tasks run at a time.
TaskStart ==
    /\ pc = "process"
    /\ config.max_workers > 1
    /\ todo # <<>>
    /\ Cardinality(running) < config.max_workers
    /\ running' = running \cup {Head(todo)}
    /\ invoked' = [invoked EXCEPT ![Head(todo)] = @ + 1]
    /\ todo' = Tail(todo)
    /\ UNCHANGED <<catalog_tagged, checkpoint_file, config, images, pc, already_processed_ids,
                   checkpoint_processed_ids, processed_ids, remaining, stats, i, results,
                   returned, outcome, fault, run_success, final_save, flushed_batches, save_failed, second_run,
                   previous_run, db_vars, ex_vars, loc_vars, aux_vars>>

\* What `for future in as_completed(...)` appends for a finished task: its result, or an
\* 'executor_exception' result when future.result() raised.
Collected(r) == IF r.raised THEN ExecutorException(r.image_id) ELSE Result(r)

\* process_batch, pooled branch: a running task returns from process_image and its future
\* is collected (results are appended in completion order).
TaskFinish(img, o) ==
    /\ pc = "process"
    /\ img \in running
    /\ LET r == ProcessImage(img, o)
       IN  /\ fault' = IF Unexpected(o) THEN fault \cup {img} ELSE fault
           /\ running' = running \ {img}
           /\ returned' = r
           /\ outcome' = o
           /\ stats' = AddCounters(stats, r)
           /\ catalog_tagged' = TagIfSuccessful(catalog_tagged, r)
           /\ run_success' = IF r.success THEN run_success \cup {img} ELSE run_success
           /\ results' = Append(results, Collected(r))
    /\ UNCHANGED <<checkpoint_file, config, images, pc, already_processed_ids,
                   checkpoint_processed_ids, processed_ids, remaining, i, todo, invoked,
                   final_save, flushed_batches, save_failed, second_run, previous_run, db_vars, ex_vars, loc_vars, aux_vars>>

\* ------------------------------------------------------------ run(): after a batch
\* What a save_checkpoint call can do: write the file; fail in open(file, 'w'), before the
\* file is touched; or fail in json.dump, after open() has truncated the file.
WriteOutcomes == {"ok", "open_failed", "dump_failed"}

\* Mutant of SaveCheckpoint: the call never writes the file.
SaveCheckpointWritesNothing(use_checkpoint, file, ids, write) == file

\* CheckpointManager.save_checkpoint: the ids a later load_checkpoint reads from the file
\* after save(ids). A failed save returns False; a truncated file does not parse and loads
\* as the empty set. A disabled save returns False without touching the file.
SaveCheckpoint(use_checkpoint, file, ids, write) ==
    IF ~use_checkpoint THEN file
    ELSE IF write = "ok" THEN ids
    ELSE IF write = "open_failed" THEN file
    ELSE {}

\* Mutant of CheckpointAfterBatch: the id of every result is added, successful or not.
CheckpointAfterBatchAll(ids, batch_results) ==
    ids \cup {batch_results[k].image_id : k \in 1..Len(batch_results)}

\* run() lines 336-338: add the ids of successful results to processed_ids.
CheckpointAfterBatch(ids, batch_results) ==
    ids \cup {batch_results[k].image_id :
                 k \in {n \in 1..Len(batch_results) : batch_results[n].success}}

\* batch_success = sum(1 for r in results if r['success'])
BatchSuccess(batch_results) ==
    Cardinality({k \in 1..Len(batch_results) : batch_results[k].success})

\* run(): batch_num = i // self.batch_size + 1
BatchNum(offset, batch_size) == (offset \div batch_size) + 1

\* Mutant of ProcessBatchReturns: process_batch returns as soon as every task has been
\* started, without waiting for the running ones.
ProcessBatchReturnsEarly(queued, in_flight) == queued = <<>>

\* process_batch returns: the sequential loop has gone through the batch; the pooled branch
\* has collected every future in as_completed and the `with ThreadPoolExecutor` block has
\* joined its workers.
ProcessBatchReturns(queued, in_flight) == queued = <<>> /\ in_flight = {}

\* run() lines 326-365: process_batch has returned; update the statistics, the in-memory
\* checkpoint set, flush it on a multiple of checkpoint_interval, advance the loop.
BatchCollect(write) ==
    /\ pc = "process"
    /\ ProcessBatchReturns(todo, running)
    /\ LET batch == Batch(remaining, i, config.batch_size)
           batch_success == BatchSuccess(results)
           ids == IF config.use_checkpoint
                     THEN CheckpointAfterBatch(processed_ids, results)
                     ELSE processed_ids
           flush == /\ config.use_checkpoint
                    /\ BatchNum(i, config.batch_size) % config.checkpoint_interval = 0
       IN  /\ stats' = [stats EXCEPT !.processed_images = @ + Len(batch),
                                     !.successful_images = @ + batch_success,
                                     !.failed_images = @ + (Len(batch) - batch_success)]
           /\ processed_ids' = ids
           /\ checkpoint_file' =
                 IF flush
                    THEN SaveCheckpoint(config.use_checkpoint, checkpoint_file, ids, write)
                    ELSE checkpoint_file
           /\ save_failed' = (save_failed \/ (flush /\ write # "ok"))
           /\ flushed_batches' = IF flush
                                    THEN flushed_batches \cup {BatchNum(i, config.batch_size)}
                                    ELSE flushed_batches
    /\ i' = i + config.batch_size
    /\ pc' = IF i + config.batch_size < Len(remaining) THEN "batch" ELSE "final"
    /\ returned' = InitResult(0)
    /\ outcome' = NoFault
    /\ UNCHANGED <<catalog_tagged, config, images, already_processed_ids,
                   checkpoint_processed_ids, remaining, todo, running, results, invoked,
                   fault, run_success, final_save, second_run, previous_run,
                   db_vars, ex_vars, loc_vars, aux_vars>>

\* run() lines 367-385: the final checkpoint and the returned statistics.
FinalCheckpoint(write) ==
    /\ pc = "final"
    /\ checkpoint_file' =
          IF config.use_checkpoint
             THEN SaveCheckpoint(config.use_checkpoint, checkpoint_file, processed_ids, write)
             ELSE checkpoint_file
    /\ final_save' = IF ~config.use_checkpoint THEN "none"
                     ELSE IF write = "ok" THEN "ok" ELSE "failed"
    /\ save_failed' = (save_failed \/ (config.use_checkpoint /\ write # "ok"))
    /\ pc' = "done"
    /\ UNCHANGED <<catalog_tagged, config, images, already_processed_ids,
                   checkpoint_processed_ids, processed_ids, remaining, stats, i, todo, running,
                   results, invoked, returned, outcome, fault, run_success, flushed_batches, second_run, previous_run,
                   db_vars, ex_vars, loc_vars, aux_vars>>

\* No run has finished yet.
NoRun == [total_images |-> 0, successful_images |-> 0, save_failed |-> FALSE]

\* The orchestrator is run again over the same catalog and the same checkpoint file, after
\* a run in which every remaining item was successful.
SecondRun ==
    /\ pc = "done"
    /\ ~second_run
    /\ stats.successful_images = stats.total_images
    /\ second_run' = TRUE
    /\ previous_run' = [total_images |-> stats.total_images,
                        successful_images |-> stats.successful_images,
                        save_failed |-> save_failed]
    /\ pc' = "start"
    /\ UNCHANGED <<catalog_tagged, checkpoint_file, config, images, already_processed_ids,
                   checkpoint_processed_ids, processed_ids, remaining, stats, i, todo, running,
                   results, invoked, returned, outcome, fault, run_success, final_save, flushed_batches, save_failed,
                   db_vars, ex_vars, loc_vars, aux_vars>>

\* ------------------------------------------------------------ specification
\* Ids that may carry the 'AI_Processed' tag, or be in the checkpoint file, before the
\* first run: the two sets overlap and together they can cover every candidate.
TaggedAtStart == {1, 2}
CheckpointedAtStart == {2, 3}

Configs == [use_checkpoint : BOOLEAN, max_workers : 1..MaxWorkers,
            batch_size : 1..MaxBatchSize, checkpoint_interval : 1..MaxInterval]

\* No database call is under way (the state of the catalog gateway before a call).
DbIdle ==
    /\ db_pc = "idle"
    /\ retries = 0
    /\ retry_count = 0
    /\ last_error = "none"
    /\ waits = <<>>
    /\ attempt_log = <<>>
    /\ conn_open = FALSE
    /\ opened = 0
    /\ closed = 0
    /\ step = 1
    /\ txn = {}
    /\ committed = {}
    /\ yields = 0
    /\ commit_calls = 0
    /\ rollbacks = 0
    /\ swallowed = {}
    /\ db_error = "none"
    /\ db_result = "none"

\* The run specifications leave the gateway's call state aside.
DbUnused == DbIdle /\ caller = "update_image_metadata" /\ max_retries = 0

\* No decode call has been made.
ExtractIdle ==
    /\ ex_pc = "idle"
    /\ preview_kind = ""
    /\ header = "unread"
    /\ ex_img = 0
    /\ bitmaps = <<>>
    /\ tried = <<>>
    /\ ex_result = "pending"
    /\ returned_bitmap = 0
    /\ ex_calls = 0
    /\ ex_history = <<>>

\* The extractor as constructed: empty location cache, index built from the directory.
LocateIdle ==
    /\ fs = [key \in {"file_global_id", "preview_db", "image_global_id", "basename",
                       "known_patterns", "hash", "smart_preview", "original"} |-> <<>>]
    /\ preview_index = <<>>
    /\ loc_config = {}
    /\ record = [file_global_id |-> FALSE, image_global_id |-> FALSE]
    /\ preview_cache = [key |-> "None", suffix |-> ""]
    /\ cache_hits = 0
    /\ cache_misses = 0
    /\ hash_lru = [set |-> FALSE, value |-> [key |-> "None", suffix |-> ""]]
    /\ loc_calls = 0
    /\ last_call = [hit |-> FALSE, path |-> [key |-> "None", suffix |-> ""], invoked |-> <<>>,
                    searched |-> <<>>, n |-> 0, fixed |-> FALSE, after_clear |-> FALSE]
    /\ prev_call = last_call
    /\ unchanged_since = TRUE
    /\ cleared_since = FALSE

\* No checkpoint store call has been made.
StoreIdle ==
    /\ ck_enabled = FALSE
    /\ ck_file = [kind |-> "absent", ids |-> {}]
    /\ ck_ids = {}
    /\ ck_step = 0
    /\ ck_last = [op |-> "none", file |-> [kind |-> "absent", ids |-> {}], ids |-> {},
                  step |-> 0, write |-> "none", loaded |-> {}, saved |-> FALSE,
                  raised |-> FALSE, ids_after |-> {}, step_after |-> 0]

\* No statistics have been touched.
StatsIdle ==
    /\ st_pc = "unused"
    /\ st_lock = {}
    /\ st_stats = [preview_found_count |-> 0, preview_extract_failures |-> 0,
                   ai_call_failures |-> 0, db_update_failures |-> 0,
                   processed_images |-> 0, successful_images |-> 0, failed_images |-> 0]
    /\ st_worker = <<>>
    /\ st_accesses = {}
    /\ st_report = st_stats

\* The parts of the program that a specification leaves aside, as constructed.
\* _apply_aesthetic_score has not been called.
RatingIdle ==
    /\ rt_column = FALSE
    /\ rt_row = FALSE
    /\ rt_rating = 0
    /\ rt_calls = 0
    /\ rt_last = [before |-> 0, score |-> 0]

\* No batch has ended.
MemoryIdle ==
    /\ mc_limit = 0
    /\ mc_cache = 0
    /\ mc_batches = 0
    /\ mc_checks = 0
    /\ mc_last = [probe |-> "none", mem |-> 0, cache |-> 0, cleared |-> FALSE,
                  raised |-> FALSE]

\* No comparison run is under way.
EquivIdle ==
    /\ eq_config = [use_checkpoint |-> FALSE, max_workers |-> 2, batch_size |-> 1,
                    checkpoint_interval |-> 1]
    /\ eq_images = <<>>
    /\ eq_outcomes = <<>>
    /\ eq_pc = "unused"
    /\ eq_i = 0
    /\ eq_todo = <<>>
    /\ eq_running = {}
    /\ eq_results = <<>>
    /\ eq_stats = ProcessingStats
    /\ eq_ids = {}
    /\ eq_file = {}
    /\ eq_finished = <<>>

AuxIdle == StoreIdle /\ StatsIdle /\ RatingIdle /\ MemoryIdle /\ EquivIdle

RunStart ==
    /\ catalog_tagged \in SUBSET TaggedAtStart
    /\ checkpoint_file \in SUBSET CheckpointedAtStart
    /\ config \in Configs
    /\ images = [k \in 1..NumImages |-> k]
    /\ pc = "start"
    /\ already_processed_ids = {}
    /\ checkpoint_processed_ids = {}
    /\ processed_ids = {}
    /\ remaining = <<>>
    /\ stats = ProcessingStats
    /\ i = 0
    /\ todo = <<>>
    /\ running = {}
    /\ results = <<>>
    /\ invoked = NoCalls
    /\ returned = InitResult(0)
    /\ outcome = NoFault
    /\ fault = {}
    /\ run_success = {}
    /\ final_save = "none"
    /\ flushed_batches = {}
    /\ save_failed = FALSE
    /\ second_run = FALSE
    /\ previous_run = NoRun

InitRun == RunStart /\ DbUnused /\ ExtractIdle /\ LocateIdle /\ AuxIdle

NextRun ==
    \/ RunFilter
    \/ BatchSubmit
    \/ \E o \in Outcomes : ProcessNext(o)
    \/ TaskStart
    \/ \E img \in Ids, o \in Outcomes : TaskFinish(img, o)
    \/ \E write \in WriteOutcomes : BatchCollect(write)
    \/ \E write \in WriteOutcomes : FinalCheckpoint(write)
    \/ SecondRun

SpecRun == InitRun /\ [][NextRun]_vars

\* The runs that start from an empty or a full set of tagged ids and of checkpointed ids:
\* 0, 1, 2 and NumImages records remain after filtering.
InitRunFair ==
    /\ InitRun
    /\ catalog_tagged \in {{}, TaggedAtStart}
    /\ checkpoint_file \in {{}, CheckpointedAtStart}

\* run() is a loop on one thread and a pool of worker threads: a step that can be taken
\* is taken (every stage call returns or raises).
FairSpecRun == InitRunFair /\ [][NextRun]_vars /\ WF_vars(NextRun)

\* ------------------------------------------------------------ catalog gateway
\* The exceptions the gateway distinguishes.
NoError == "none"
LockError == "database is locked"             \* sqlite3.OperationalError with this text
SqliteError == "sqlite3.Error"                \* any other sqlite3 error
PythonError == "Exception"                    \* an exception that is no sqlite3.Error
ConnectFailed == "RuntimeError: Failed to connect to Lightroom catalog"
GeneratorDidntStop == "RuntimeError: generator didn't stop"

\* update_image_metadata asks cursor() for this many retries.
UpdateRetries == 5

\* The statements of the with-body of each caller, in order.
Body(method) ==
    IF method = "update_image_metadata"
      THEN <<"_apply_keywords", "_apply_aesthetic_score",
             "_update_caption_for_film_analysis", "_store_structured_metadata">>
      ELSE <<"select_processed">>

\* _store_structured_metadata catches every sqlite3.Error it raises.
Swallows(method, k, err) ==
    /\ Body(method)[k] = "_store_structured_metadata"
    /\ err \in {LockError, SqliteError}

RetryAnyDatabaseError(err, count, limit) == err \in {LockError, SqliteError} /\ count < limit

\* cursor(): `"database is locked" in str(e) and retry_count < retries`.
ShouldRetry(err, count, limit) == err = LockError /\ count < limit

\* Mutant of WaitTime: the exponent is the number of the failed attempt, counted from 0.
WaitTimeFromZero(count) == 2 ^ (count - 1)

\* wait_time = 0.5 * (2 ** retry_count), in half seconds.
WaitTime(count) == 2 ^ count

\* Mutant of MethodResult: update_image_metadata reports a lock error as success.
MethodResultHidesLock(method, err) ==
    IF method = "update_image_metadata"
      THEN IF err \in {NoError, LockError} THEN "True"
           ELSE IF err = SqliteError THEN "False"
           ELSE "raised"
      ELSE IF err = NoError THEN "processed_ids"
           ELSE IF err \in {LockError, SqliteError} THEN "set()"
           ELSE "raised"

\* What the calling method does with the exception that leaves its with statement.
MethodResult(method, err) ==
    IF method = "update_image_metadata"
      THEN IF err = NoError THEN "True"
           ELSE IF err \in {LockError, SqliteError} THEN "False"
           ELSE "raised"
      ELSE IF err = NoError THEN "processed_ids"
           ELSE IF err \in {LockError, SqliteError} THEN "set()"
           ELSE "raised"

Attempt(phase, err) == [phase |-> phase, error |-> err, retry_count |-> retry_count]

\* A method of the gateway is called; update_image_metadata returns False at once when
\* the metadata is empty, otherwise the method enters cursor().
DbCall(method, ai_metadata) ==
    /\ db_pc = "idle"
    /\ caller' = method
    /\ IF method = "update_image_metadata" /\ ai_metadata = "empty"
         THEN /\ db_pc' = "returned"
              /\ db_result' = "False"
              /\ UNCHANGED retries
         ELSE /\ db_pc' = "connect"
              /\ retries' = IF method = "update_image_metadata" THEN UpdateRetries
                            ELSE max_retries
              /\ UNCHANGED db_result
    /\ retry_count' = 0
    /\ last_error' = NoError
    /\ UNCHANGED <<max_retries, waits, attempt_log, conn_open, opened, closed, step, txn,
                   committed, yields, commit_calls, rollbacks, swallowed, db_error>>
    /\ UNCHANGED <<run_vars, ex_vars, loc_vars, aux_vars>>

\* The exception err leaves cursor() and reaches the calling method.
Leave(err) ==
    /\ db_error' = err
    /\ db_result' = MethodResult(caller, err)
    /\ db_pc' = "returned"
    /\ UNCHANGED <<retry_count, last_error, waits>>

\* Either except clause of cursor() on a lock error with retries left: back to the loop.
Retry(err) ==
    /\ last_error' = err
    /\ retry_count' = retry_count + 1
    /\ waits' = Append(waits, WaitTime(retry_count + 1))
    /\ db_pc' = "connect"
    /\ UNCHANGED <<db_error, db_result>>

\* _connect(): sqlite3.connect and three PRAGMAs; every sqlite3.Error becomes a
\* RuntimeError, which no except clause of cursor() handles.  A lock error comes from a
\* PRAGMA, after the connection was opened.
Connect(f) ==
    /\ db_pc = "connect"
    /\ retry_count <= retries
    /\ IF f = NoError
         THEN /\ conn_open' = TRUE
              /\ opened' = opened + 1
              /\ db_pc' = "begin"
              /\ UNCHANGED <<attempt_log, retry_count, last_error, waits, db_error, db_result>>
         ELSE /\ conn_open' = FALSE
              /\ opened' = IF f = LockError THEN opened + 1 ELSE opened
              /\ attempt_log' = Append(attempt_log, Attempt("connect", f))
              /\ Leave(ConnectFailed)
    /\ UNCHANGED <<caller, max_retries, retries, closed, step, txn, committed, yields,
                   commit_calls, rollbacks, swallowed>>
    /\ UNCHANGED <<run_vars, ex_vars, loc_vars, aux_vars>>

\* conn.execute("BEGIN DEFERRED"), conn.cursor() and `yield cursor`.  A generator that
\* yields a second time makes the context manager raise RuntimeError and close it, which
\* runs the finally clause.
Begin(f) ==
    /\ db_pc = "begin"
    /\ IF f = NoError
         THEN IF yields = 0
                THEN /\ yields' = 1
                     /\ step' = 1
                     /\ txn' = {}
                     /\ db_pc' = "body"
                     /\ UNCHANGED <<attempt_log, conn_open, closed, retry_count, last_error,
                                    waits, db_error, db_result>>
                ELSE /\ yields' = yields + 1
                     /\ closed' = closed + 1
                     /\ conn_open' = FALSE
                     /\ attempt_log' = Append(attempt_log, Attempt("yield", GeneratorDidntStop))
                     /\ Leave(GeneratorDidntStop)
                     /\ UNCHANGED <<step, txn>>
         ELSE /\ attempt_log' = Append(attempt_log, Attempt("begin", f))
              /\ conn_open' = FALSE
              /\ IF ShouldRetry(f, retry_count, retries) THEN Retry(f) ELSE Leave(f)
              /\ UNCHANGED <<yields, step, txn, closed>>
    /\ UNCHANGED <<caller, max_retries, retries, opened, committed, commit_calls, rollbacks,
                   swallowed>>
    /\ UNCHANGED <<run_vars, ex_vars, loc_vars, aux_vars>>

\* The exception err is raised at `yield cursor` or by conn.commit(): rollback, then retry
\* or re-raise, and the finally clause closes the cursor and the connection.
Throw(phase, err) ==
    /\ rollbacks' = rollbacks + 1
    /\ txn' = {}
    /\ closed' = closed + 1
    /\ conn_open' = FALSE
    /\ attempt_log' = Append(attempt_log, Attempt(phase, err))
    /\ IF ShouldRetry(err, retry_count, retries) THEN Retry(err) ELSE Leave(err)

\* One statement of the caller's with-body.
Execute(f) ==
    /\ db_pc = "body"
    /\ IF f = NoError \/ Swallows(caller, step, f)
         THEN /\ txn' = IF f = NoError THEN txn \cup {step} ELSE txn
              /\ swallowed' = IF f = NoError THEN swallowed ELSE swallowed \cup {step}
              /\ IF step = Len(Body(caller))
                   THEN db_pc' = "commit" /\ UNCHANGED step
                   ELSE step' = step + 1 /\ UNCHANGED db_pc
              /\ UNCHANGED <<rollbacks, closed, conn_open, attempt_log, retry_count,
                             last_error, waits, db_error, db_result>>
         ELSE /\ Throw("body", f)
              /\ UNCHANGED <<step, swallowed>>
    /\ UNCHANGED <<caller, max_retries, retries, opened, committed, yields, commit_calls>>
    /\ UNCHANGED <<run_vars, ex_vars, loc_vars, aux_vars>>

\* The body finished: conn.commit(), return, finally.
Commit(f) ==
    /\ db_pc = "commit"
    /\ commit_calls' = commit_calls + 1
    /\ IF f = NoError
         THEN /\ committed' = committed \cup txn
              /\ txn' = {}
              /\ closed' = closed + 1
              /\ conn_open' = FALSE
              /\ attempt_log' = Append(attempt_log, Attempt("commit", NoError))
              /\ Leave(NoError)
              /\ UNCHANGED rollbacks
         ELSE /\ Throw("commit", f)
              /\ UNCHANGED committed
    /\ UNCHANGED <<caller, max_retries, retries, opened, step, yields, swallowed>>
    /\ UNCHANGED <<run_vars, ex_vars, loc_vars, aux_vars>>

\* The run state SpecDb holds fixed.
RunUnused ==
    /\ RunStart
    /\ catalog_tagged = {}
    /\ checkpoint_file = {}
    /\ config = [use_checkpoint |-> FALSE, max_workers |-> 1, batch_size |-> 1,
                 checkpoint_interval |-> 1]

InitDb ==
    /\ RunUnused
    /\ DbIdle
    /\ ExtractIdle
    /\ LocateIdle
    /\ AuxIdle
    /\ caller = "none"
    /\ max_retries \in 0..MaxRetries

NextDb ==
    \/ \E method \in {"update_image_metadata", "get_processed_images"},
          ai_metadata \in {"empty", "full"} : DbCall(method, ai_metadata)
    \/ \E f \in {NoError, LockError, SqliteError} : Connect(f)
    \/ \E f \in {NoError, LockError, SqliteError} : Begin(f)
    \/ \E f \in {NoError, LockError, SqliteError, PythonError} : Execute(f)
    \/ \E f \in {NoError, LockError, SqliteError} : Commit(f)

SpecDb == InitDb /\ [][NextDb]_vars

\* ------------------------------------------------------------ preview decoder
\* PreviewExtractor.extract_jpeg_from_preview: the decode steps in source order.
DecodeSteps == <<"direct_jpeg", "direct_image", "lrprev", "dng_rawpy", "dng_pil",
                 "jpeg_scan", "final_open">>

\* The kinds of preview path the code tells apart ("" is the empty path).
PreviewKinds == {"", "other", ".lrprev", ".dng"}

\* One bitmap after_open by a decode step.
Bitmap(by) == [by |-> by, open |-> TRUE, closes |-> 0]

\* img.close() on bitmap k of bs (k = 0: no bitmap).
CloseBitmap(bs, k) ==
    IF k = 0 THEN bs
    ELSE [bs EXCEPT ![k] = [@ EXCEPT !.open = FALSE, !.closes = @ + 1]]

\* The finally clause: `if img is not None: img.close()`.
Finally(bs, k) == CloseBitmap(bs, k)

\* A call begins; the empty path returns None before anything is touched.
ExtractCall(kind) ==
    /\ ex_pc \in {"idle", "returned"}
    /\ ex_calls < MaxExtractCalls
    /\ ex_calls' = ex_calls + 1
    /\ ex_history' = IF ex_pc = "returned"
                       THEN Append(ex_history, [kind |-> preview_kind, result |-> ex_result,
                                                tried |-> Len(tried)])
                       ELSE ex_history
    /\ preview_kind' = kind
    /\ ex_img' = 0
    /\ bitmaps' = <<>>
    /\ tried' = <<>>
    /\ header' = "unread"
    /\ ex_result' = IF kind = "" THEN "None" ELSE "pending"
    /\ returned_bitmap' = 0
    /\ ex_pc' = IF kind = "" THEN "returned" ELSE "open"
    /\ UNCHANGED <<run_vars, db_vars, loc_vars, aux_vars>>

\* `return value` (0 = None) from inside the try block: the finally clause runs, then the
\* caller has the value.
ExtractReturn(bs, local, value) ==
    /\ bitmaps' = Finally(bs, local)
    /\ ex_img' = local
    /\ ex_result' = IF value = 0 THEN "None" ELSE "bitmap"
    /\ returned_bitmap' = value
    /\ ex_pc' = "returned"

\* os.path.getsize and the read of the 16 header bytes.
ReadHeader(f) ==
    /\ ex_pc = "open"
    /\ IF f \in {"missing", "empty", "unreadable"}
         THEN /\ ExtractReturn(bitmaps, ex_img, 0)
              /\ UNCHANGED header
         ELSE /\ header' = f
              /\ ex_pc' = IF f = "jpeg" THEN "direct_jpeg" ELSE "direct_image"
              /\ UNCHANGED <<bitmaps, ex_img, ex_result, returned_bitmap>>
    /\ UNCHANGED <<preview_kind, tried, ex_calls, ex_history>>
    /\ UNCHANGED <<run_vars, db_vars, loc_vars, aux_vars>>

\* `with Image.open(path) as img: return img.copy()` (steps direct_jpeg, dng_pil and
\* final_open): the with statement closes the opened image, the copy is returned.
OpenAndCopy(stepname, f) ==
    LET after_open == Append(bitmaps, Bitmap(stepname))
        k == Len(after_open)
        copied == Append(CloseBitmap(after_open, k), Bitmap(stepname))
    IN  /\ tried' = Append(tried, stepname)
        /\ IF f = "ok" THEN ExtractReturn(copied, k, Len(copied))
           ELSE IF f = "copy_raises" THEN ExtractReturn(CloseBitmap(after_open, k), k, 0)
           ELSE ExtractReturn(bitmaps, ex_img, 0)
        /\ UNCHANGED <<preview_kind, header, ex_calls, ex_history>>
        /\ UNCHANGED <<run_vars, db_vars, loc_vars, aux_vars>>

\* `return Image.open(io.BytesIO(jpeg_data))`: the new image is returned without being
\* bound to img.
ReturnOpened(stepname) ==
    LET after_open == Append(bitmaps, Bitmap(stepname))
    IN  ExtractReturn(after_open, ex_img, Len(after_open))

\* Strategy 1: the header is a JPEG header.
DirectJpeg(f) ==
    /\ ex_pc = "direct_jpeg"
    /\ OpenAndCopy("direct_jpeg", f)

\* The step that follows a failed strategy 2.
AfterDirectImage(kind) ==
    IF kind = ".lrprev" THEN "lrprev" ELSE IF kind = ".dng" THEN "dng_rawpy" ELSE "jpeg_scan"

\* Strategy 2: `img = Image.open(path); return img`, its exception swallowed.
DirectImage(f) ==
    /\ ex_pc = "direct_image"
    /\ tried' = Append(tried, "direct_image")
    /\ IF f = "ok"
         THEN LET after_open == Append(bitmaps, Bitmap("direct_image"))
              IN  ExtractReturn(after_open, Len(after_open), Len(after_open))
         ELSE /\ ex_pc' = AfterDirectImage(preview_kind)
              /\ UNCHANGED <<bitmaps, ex_img, ex_result, returned_bitmap>>
    /\ UNCHANGED <<preview_kind, header, ex_calls, ex_history>>
    /\ UNCHANGED <<run_vars, db_vars, loc_vars, aux_vars>>

\* Strategy 3: the path ends with .lrprev; JPEG markers are searched in the file.
Lrprev(f) ==
    /\ ex_pc = "lrprev"
    /\ tried' = Append(tried, "lrprev")
    /\ IF f = "ok" THEN ReturnOpened("lrprev") ELSE ExtractReturn(bitmaps, ex_img, 0)
    /\ UNCHANGED <<preview_kind, header, ex_calls, ex_history>>
    /\ UNCHANGED <<run_vars, db_vars, loc_vars, aux_vars>>

\* Strategy 4: the path ends with .dng; rawpy thumbnail or postprocess, errors logged.
DngRawpy(f) ==
    /\ ex_pc = "dng_rawpy"
    /\ tried' = Append(tried, "dng_rawpy")
    /\ IF f \in {"thumb", "postprocess"}
         THEN ReturnOpened("dng_rawpy")
         ELSE /\ ex_pc' = "dng_pil"
              /\ UNCHANGED <<bitmaps, ex_img, ex_result, returned_bitmap>>
    /\ UNCHANGED <<preview_kind, header, ex_calls, ex_history>>
    /\ UNCHANGED <<run_vars, db_vars, loc_vars, aux_vars>>

\* Strategy 4, "if all else fails, try PIL".
DngPil(f) ==
    /\ ex_pc = "dng_pil"
    /\ OpenAndCopy("dng_pil", f)

\* Strategy 5: scan the file for an embedded JPEG.
JpegScan(f) ==
    /\ ex_pc = "jpeg_scan"
    /\ tried' = Append(tried, "jpeg_scan")
    /\ IF f = "ok" THEN ReturnOpened("jpeg_scan")
       ELSE IF f = "no_match"
         THEN /\ ex_pc' = "final_open"
              /\ UNCHANGED <<bitmaps, ex_img, ex_result, returned_bitmap>>
       ELSE ExtractReturn(bitmaps, ex_img, 0)
    /\ UNCHANGED <<preview_kind, header, ex_calls, ex_history>>
    /\ UNCHANGED <<run_vars, db_vars, loc_vars, aux_vars>>

\* Strategy 6: final fallback.
FinalOpen(f) ==
    /\ ex_pc = "final_open"
    /\ OpenAndCopy("final_open", f)

InitExtract == RunUnused /\ DbUnused /\ ExtractIdle /\ LocateIdle /\ AuxIdle

NextExtract ==
    \/ \E kind \in PreviewKinds : ExtractCall(kind)
    \/ \E f \in {"missing", "empty", "unreadable", "jpeg", "other"} : ReadHeader(f)
    \/ \E f \in {"ok", "open_raises", "copy_raises"} : DirectJpeg(f)
    \/ \E f \in {"ok", "raises"} : DirectImage(f)
    \/ \E f \in {"ok", "no_match", "raises"} : Lrprev(f)
    \/ \E f \in {"thumb", "postprocess", "import_error", "raises"} : DngRawpy(f)
    \/ \E f \in {"ok", "open_raises", "copy_raises"} : DngPil(f)
    \/ \E f \in {"ok", "no_match", "raises"} : JpegScan(f)
    \/ \E f \in {"ok", "open_raises", "copy_raises"} : FinalOpen(f)

SpecExtract == InitExtract /\ [][NextExtract]_vars

\* ------------------------------------------------------------ preview location
\* PreviewExtractor.locate_preview_file: the search strategies in source order.
Strategies == <<"file_global_id", "preview_db", "image_global_id", "basename",
                "known_patterns", "hash", "smart_preview", "original">>

\* The configuration switches locate_preview_file reads.
Flags == {"use_id_global", "use_preview_db", "known_preview_patterns", "deep_search",
          "use_smart_previews", "use_original_if_no_preview"}

\* One resolution suffix of each rank get_preview_resolution_rank knows.
Suffixes == {"_3200", "_1600", "_800"}

\* utils.get_preview_resolution_rank.
get_preview_resolution_rank(suffix) ==
    IF suffix \in {"_3202", "_3200", "_3951", "_3199"} THEN 3
    ELSE IF suffix \in {"_1601", "_1600", "_1975", "_1599"} THEN 2
    ELSE IF suffix \in {"_800", "_799", "_987"} THEN 1
    ELSE 0

\* A file is named by what it matches (the strategy that can find it) and its suffix.
File(key, suffix) == [key |-> key, suffix |-> suffix]
NoPath == [key |-> "None", suffix |-> ""]

StrategyKeys == {Strategies[k] : k \in 1..Len(Strategies)}

\* The candidate files of each strategy, as lists of suffixes in directory-walk order.
NoFiles == [key \in StrategyKeys |-> <<>>]

\* preview_files.sort(key=get_preview_resolution_rank, reverse=True); preview_files[0]:
\* the sort is stable, so the first candidate of the highest rank.
BestByRank(candidates) ==
    IF candidates = <<>> THEN ""
    ELSE LET top == CHOOSE r \in 0..3 :
                       /\ \E k \in 1..Len(candidates) :
                             get_preview_resolution_rank(candidates[k]) = r
                       /\ \A k \in 1..Len(candidates) :
                             get_preview_resolution_rank(candidates[k]) <= r
             first == CHOOSE k \in 1..Len(candidates) :
                         /\ get_preview_resolution_rank(candidates[k]) = top
                         /\ \A j \in 1..(k - 1) :
                               get_preview_resolution_rank(candidates[j]) # top
         IN  candidates[first]

\* The first candidate the walk (or the index) enumerates.
FirstFound(candidates) == IF candidates = <<>> THEN "" ELSE candidates[1]

PathOf(key, suffix) == IF suffix = "" THEN NoPath ELSE File(key, suffix)

\* FilesystemHelper.find_preview_by_uuid and PreviewDatabase.get_image_preview_files.
find_preview_by_uuid(files, key) == PathOf(key, BestByRank(files[key]))

\* FilesystemHelper.find_preview_by_basename: the first match in the index built by
\* build_preview_index when the helper was constructed.
find_preview_by_basename(index) == PathOf("basename", FirstFound(index))

\* find_preview_by_patterns, find_smart_preview, get_original_image_path and the body of
\* find_preview_by_hash: the first match of the walk.
find_first(files, key) == PathOf(key, FirstFound(files[key]))

\* The guard of strategy k, apart from `not preview_path`.
StrategyEnabled(k, cfg, rec) ==
    CASE k = 1 -> rec.file_global_id /\ "use_id_global" \in cfg
      [] k = 2 -> "use_preview_db" \in cfg
      [] k = 3 -> rec.image_global_id /\ "use_id_global" \in cfg
      [] k = 4 -> TRUE
      [] k = 5 -> "known_preview_patterns" \in cfg
      [] k = 6 -> "deep_search" \in cfg
      [] k = 7 -> "use_smart_previews" \in cfg
      [] k = 8 -> "use_original_if_no_preview" \in cfg

\* What strategy k returns; find_preview_by_hash is wrapped in lru_cache.
StrategyResult(k, files, index, lru) ==
    CASE k \in {1, 2, 3} -> find_preview_by_uuid(files, Strategies[k])
      [] k = 4 -> find_preview_by_basename(index)
      [] k = 6 -> IF lru.set THEN lru.value ELSE find_first(files, Strategies[k])
      [] OTHER -> find_first(files, Strategies[k])

SearchAllStrategies(k, path, cfg, rec) == StrategyEnabled(k, cfg, rec)

\* `if not preview_path and <guard>` in front of every strategy.
StrategyRuns(k, path, cfg, rec) == path = NoPath /\ StrategyEnabled(k, cfg, rec)

\* The strategies from k on, given the path found so far: the path returned, the
\* strategies invoked, those whose body ran, and the lru_cache of find_preview_by_hash.
RECURSIVE Search(_, _, _, _, _, _)
Search(k, this, cfg, rec, files, index) ==
    IF k > Len(Strategies) THEN this
    ELSE IF ~StrategyRuns(k, this.path, cfg, rec)
      THEN Search(k + 1, this, cfg, rec, files, index)
    ELSE LET found == StrategyResult(k, files, index, this.lru)
             next == [path |-> found,
                      invoked |-> Append(this.invoked, Strategies[k]),
                      searched |-> IF k = 6 /\ this.lru.set THEN this.searched
                                   ELSE Append(this.searched, Strategies[k]),
                      lru |-> IF k = 6 THEN [set |-> TRUE, value |-> found] ELSE this.lru]
         IN  Search(k + 1, next, cfg, rec, files, index)

NoCall == [hit |-> FALSE, path |-> NoPath, invoked |-> <<>>, searched |-> <<>>, n |-> 0,
           fixed |-> FALSE, after_clear |-> FALSE]

StoreNothing(cache, path) == cache

\* `if not preview_path: ... else: self._preview_cache[cache_key] = preview_path`.
StoreInCache(cache, path) == IF path = NoPath THEN cache ELSE path

\* locate_preview_file(image_data) for the record.
Locate ==
    /\ loc_calls < MaxLocates
    /\ loc_calls' = loc_calls + 1
    /\ prev_call' = last_call
    /\ unchanged_since' = TRUE
    /\ cleared_since' = FALSE
    /\ IF preview_cache # NoPath
         THEN /\ cache_hits' = cache_hits + 1
              /\ last_call' = [hit |-> TRUE, path |-> preview_cache, invoked |-> <<>>,
                               searched |-> <<>>, n |-> loc_calls + 1,
                               fixed |-> unchanged_since /\ ~cleared_since,
                               after_clear |-> cleared_since]
              /\ UNCHANGED <<cache_misses, preview_cache, hash_lru>>
         ELSE LET start == [path |-> NoPath, invoked |-> <<>>, searched |-> <<>>,
                            lru |-> hash_lru]
                  done == Search(1, start, loc_config, record, fs, preview_index)
              IN  /\ cache_misses' = cache_misses + 1
                  /\ preview_cache' = StoreInCache(preview_cache, done.path)
                  /\ hash_lru' = done.lru
                  /\ last_call' = [hit |-> FALSE, path |-> done.path,
                                   invoked |-> done.invoked, searched |-> done.searched,
                                   n |-> loc_calls + 1,
                                   fixed |-> unchanged_since /\ ~cleared_since,
                                   after_clear |-> cleared_since]
                  /\ UNCHANGED cache_hits
    /\ UNCHANGED <<fs, preview_index, loc_config, record>>
    /\ UNCHANGED <<run_vars, db_vars, ex_vars, aux_vars>>

\* clear_cache(): the location cache and its two counters.
ClearCache ==
    /\ preview_cache' = NoPath
    /\ cache_hits' = 0
    /\ cache_misses' = 0
    /\ cleared_since' = TRUE
    /\ UNCHANGED <<fs, preview_index, loc_config, record, hash_lru, loc_calls, last_call,
                   prev_call, unchanged_since>>
    /\ UNCHANGED <<run_vars, db_vars, ex_vars, aux_vars>>

\* Lightroom (or the user) removes a preview file between two calls.
RemoveFile(key) ==
    /\ fs[key] # <<>>
    /\ fs' = [fs EXCEPT ![key] = Tail(@)]
    /\ unchanged_since' = FALSE
    /\ UNCHANGED <<preview_index, loc_config, record, preview_cache, cache_hits, cache_misses,
                   hash_lru, loc_calls, last_call, prev_call, cleared_since>>
    /\ UNCHANGED <<run_vars, db_vars, ex_vars, aux_vars>>

\* The file systems explored: at most MaxFiles files, the candidates of one strategy
\* carrying different suffixes.
AddFile(files, key, suffix) == [files EXCEPT ![key] = Append(@, suffix)]

\* The file names explored: candidates of the strategies the claims rank carry one of
\* the suffixes, candidates of the others carry none.
RankedKeys == {"file_global_id", "preview_db", "image_global_id", "basename"}
NoSuffix == "no suffix"
FileNames ==
    {File(key, suffix) : key \in RankedKeys, suffix \in Suffixes}
    \cup {File(key, NoSuffix) : key \in StrategyKeys \ RankedKeys}

RECURSIVE FileSystemsOf(_)
FileSystemsOf(n) ==
    IF n = 0 THEN {NoFiles}
    ELSE LET smaller == FileSystemsOf(n - 1)
         IN  smaller \cup {AddFile(files, name.key, name.suffix) :
                              files \in smaller, name \in FileNames}

FileSystems ==
    {files \in FileSystemsOf(MaxFiles) :
        \A key \in StrategyKeys : \A j, k \in 1..Len(files[key]) :
            j # k => files[key][j] # files[key][k]}

\* The configurations explored: every switch on, or all but one.
LocateConfigs == {Flags} \cup {Flags \ {flag} : flag \in Flags}

Records == [file_global_id : BOOLEAN, image_global_id : BOOLEAN]

InitLocate ==
    /\ RunUnused /\ DbUnused /\ ExtractIdle /\ AuxIdle
    /\ fs \in FileSystems
    /\ preview_index = fs["basename"]
    /\ loc_config \in LocateConfigs
    /\ record \in Records
    /\ preview_cache = NoPath
    /\ cache_hits = 0
    /\ cache_misses = 0
    /\ hash_lru = [set |-> FALSE, value |-> NoPath]
    /\ loc_calls = 0
    /\ last_call = NoCall
    /\ prev_call = NoCall
    /\ unchanged_since = TRUE
    /\ cleared_since = FALSE

NextLocate ==
    \/ Locate
    \/ ClearCache
    \/ \E key \in StrategyKeys : RemoveFile(key)

SpecLocate == InitLocate /\ [][NextLocate]_vars

\* ------------------------------------------------------------ checkpoint store
\* The ids the caller of the store works with.
StoreIds == 1..MaxStoreIds

\* An element of a loaded set that is not a record id (a key of a JSON object, a character
\* of a JSON string).
NotAnId == 0

\* What the checkpoint file can be when load_checkpoint looks at it:
\*   absent          os.path.exists is false
\*   unreadable      open() raises OSError
\*   not_json        json.load raises JSONDecodeError (empty, truncated, garbage)
\*   not_iterable    valid JSON that set() rejects (a number, null, true)
\*   unhashable      a JSON list with a list or an object in it: set() raises TypeError
\*   other_iterable  a JSON object or string: set() yields its keys or characters
\*   ids             a JSON list of ids, as save_checkpoint writes it
StoreFile(kind, ids) == [kind |-> kind, ids |-> ids]

StoreFiles ==
    {StoreFile(k, {}) : k \in {"absent", "unreadable", "not_json", "not_iterable", "unhashable"}}
    \cup {StoreFile("other_iterable", {NotAnId})}
    \cup {StoreFile("ids", ids) : ids \in SUBSET StoreIds}

\* The exception the body of the try block of load_checkpoint raises on a file.
LoadError(file) ==
    CASE file.kind = "unreadable" -> "OSError"
      [] file.kind = "not_json" -> "JSONDecodeError"
      [] file.kind \in {"not_iterable", "unhashable"} -> "TypeError"
      [] OTHER -> "none"

\* Mutant of Caught: the handler takes I/O errors only.
CaughtOnlyOSError(exc) == exc = "OSError"

\* `except Exception as e:` in load_checkpoint and save_checkpoint: every exception the
\* try block can raise is an Exception.
Caught(exc) == exc \in {"OSError", "JSONDecodeError", "TypeError"}

\* CheckpointManager.load_checkpoint: the returned set, or the exception that leaves it.
load_checkpoint(enabled, file) ==
    IF ~enabled THEN [loaded |-> {}, raised |-> FALSE]
    ELSE IF file.kind = "absent" THEN [loaded |-> {}, raised |-> FALSE]
    ELSE IF LoadError(file) = "none" THEN [loaded |-> file.ids, raised |-> FALSE]
    ELSE IF Caught(LoadError(file)) THEN [loaded |-> {}, raised |-> FALSE]
    ELSE [loaded |-> {}, raised |-> TRUE]

\* The exception the body of the try block of save_checkpoint raises.
SaveError(write) == IF write = "ok" THEN "none" ELSE "OSError"

\* The file after `with open(self.checkpoint_file, 'w') as f: json.dump(list(ids), f)`:
\* open() has truncated the file when json.dump fails.
WrittenFile(file, ids, write) ==
    CASE write = "ok" -> StoreFile("ids", ids)
      [] write = "open_failed" -> file
      [] write = "dump_failed" -> StoreFile("not_json", {})

\* CheckpointManager.save_checkpoint: the returned flag, the file it leaves, or the
\* exception that leaves it.
save_checkpoint(enabled, file, ids, write) ==
    IF ~enabled THEN [saved |-> FALSE, raised |-> FALSE, file |-> file]
    ELSE IF SaveError(write) = "none"
            THEN [saved |-> TRUE, raised |-> FALSE, file |-> WrittenFile(file, ids, write)]
    ELSE IF Caught(SaveError(write))
            THEN [saved |-> FALSE, raised |-> FALSE, file |-> WrittenFile(file, ids, write)]
    ELSE [saved |-> FALSE, raised |-> TRUE, file |-> WrittenFile(file, ids, write)]

\* The caller goes on after a store call unless the call raised.
CallerAlive == ~ck_last.raised /\ ck_step < MaxStoreCalls

\* run() line 289: checkpoint_processed_ids = self.checkpoint_manager.load_checkpoint(),
\* the first store call of a run.
StoreLoad ==
    /\ CallerAlive
    /\ ck_last.op = "none"
    /\ LET r == load_checkpoint(ck_enabled, ck_file)
       IN  /\ ck_ids' = IF r.raised THEN ck_ids ELSE r.loaded
           /\ ck_step' = IF r.raised THEN ck_step ELSE ck_step + 1
           /\ ck_last' = [op |-> "load", file |-> ck_file, ids |-> ck_ids, step |-> ck_step,
                          write |-> "none", loaded |-> r.loaded, saved |-> FALSE,
                          raised |-> r.raised, ids_after |-> ck_ids', step_after |-> ck_step']
    /\ UNCHANGED <<ck_enabled, ck_file, run_vars, db_vars, ex_vars, loc_vars, st_vars, rt_vars, mc_vars, eq_vars>>

\* run() line 338: processed_ids.add(result['image_id']).
StoreAdd(id) ==
    /\ CallerAlive
    /\ ck_last.op # "none"
    /\ id \notin ck_ids
    /\ ck_ids' = ck_ids \cup {id}
    /\ UNCHANGED <<ck_enabled, ck_file, ck_step, ck_last, run_vars, db_vars, ex_vars, loc_vars,
                   st_vars, rt_vars, mc_vars, eq_vars>>

\* run() lines 341 and 369: self.checkpoint_manager.save_checkpoint(processed_ids); the
\* returned flag is not looked at.
StoreSave(write) ==
    /\ CallerAlive
    /\ ck_last.op # "none"
    /\ UNCHANGED <<ck_enabled, ck_ids, run_vars, db_vars, ex_vars, loc_vars, st_vars, rt_vars, mc_vars, eq_vars>>
    /\ LET r == save_checkpoint(ck_enabled, ck_file, ck_ids, write)
       IN  /\ ck_file' = r.file
           /\ ck_step' = IF r.raised THEN ck_step ELSE ck_step + 1
           /\ ck_last' = [op |-> "save", file |-> ck_file, ids |-> ck_ids, step |-> ck_step,
                          write |-> write, loaded |-> {}, saved |-> r.saved,
                          raised |-> r.raised, ids_after |-> ck_ids', step_after |-> ck_step']

InitStore ==
    /\ RunUnused /\ DbUnused /\ ExtractIdle /\ LocateIdle
    /\ StatsIdle /\ RatingIdle /\ MemoryIdle /\ EquivIdle
    /\ ck_enabled \in BOOLEAN
    /\ ck_file \in StoreFiles
    /\ ck_ids = {}
    /\ ck_step = 0
    /\ ck_last = [op |-> "none", file |-> StoreFile("absent", {}), ids |-> {}, step |-> 0,
                  write |-> "none", loaded |-> {}, saved |-> FALSE, raised |-> FALSE,
                  ids_after |-> {}, step_after |-> 0]

NextStore ==
    \/ StoreLoad
    \/ \E id \in StoreIds : StoreAdd(id)
    \/ \E write \in WriteOutcomes : StoreSave(write)

SpecStore == InitStore /\ [][NextStore]_vars

\* ------------------------------------------------------------ statistics
\* The pool threads of one batch, one item each, and the thread that runs run().
PoolThreads == 1..MaxWorkers
RunThread == 0

\* ProcessingStats(): every counter is 0.
NewStats ==
    [preview_found_count |-> 0, preview_extract_failures |-> 0, ai_call_failures |-> 0,
     db_update_failures |-> 0, processed_images |-> 0, successful_images |-> 0,
     failed_images |-> 0]

\* The `with self.stats_lock: self.stats.x += 1` blocks process_image goes through for a
\* result r, in the order of the code.
Increments(r) ==
    (IF r.preview_found_count = 1 THEN <<"preview_found_count">> ELSE <<>>)
    \o (IF r.preview_extract_failures = 1 THEN <<"preview_extract_failures">> ELSE <<>>)
    \o (IF r.ai_call_failures = 1 THEN <<"ai_call_failures">> ELSE <<>>)
    \o (IF r.db_update_failures = 1 THEN <<"db_update_failures">> ELSE <<>>)

\* A pool thread that has not taken its task yet.
WorkerIdle ==
    [at |-> "idle", result |-> Result(InitResult(0)), made |-> <<>>, todo |-> <<>>, local |-> 0]

\* Some pool thread is inside process_image.
WorkersActive == \E w \in PoolThreads : st_worker[w].at \notin {"idle", "done"}

\* Mutant of CanAcquire: the lock lets every thread in.
AcquireAlways(holders, t) == TRUE

\* threading.RLock.acquire returns: no other thread holds the lock.
CanAcquire(holders, t) == holders \subseteq {t}

\* One access to self.stats, as the claims look at it.
Access(what, t) ==
    [what |-> what, locked |-> t \in st_lock,
     concurrent |-> IF t = RunThread THEN WorkersActive ELSE TRUE]

\* run() lines 276-277: self.stats = ProcessingStats(); self.stats.start_time = ...
StatsReset ==
    /\ st_pc = "reset"
    /\ st_stats' = NewStats
    /\ st_accesses' = st_accesses \cup {Access("reset", RunThread)}
    /\ st_pc' = "batch"
    /\ UNCHANGED <<st_lock, st_worker, st_report, run_vars, db_vars, ex_vars, loc_vars, ck_vars,
                   rt_vars, mc_vars, eq_vars>>

\* A pool thread takes its task: process_image runs up to its first statistics block (or
\* to its return when the item makes none).
WorkerStart(w, o) ==
    /\ st_pc = "batch"
    /\ st_worker[w].at = "idle"
    /\ LET r == ProcessImage(w, o)
       IN  st_worker' = [st_worker EXCEPT ![w] =
                            [at |-> IF Increments(r) = <<>> THEN "done" ELSE "acquire",
                             result |-> Result(r), made |-> Increments(r),
                             todo |-> Increments(r), local |-> 0]]
    /\ UNCHANGED <<st_pc, st_lock, st_stats, st_accesses, st_report,
                   run_vars, db_vars, ex_vars, loc_vars, ck_vars,
                   rt_vars, mc_vars, eq_vars>>

\* `with self.stats_lock:` is entered.
WorkerAcquire(w) ==
    /\ st_worker[w].at = "acquire"
    /\ CanAcquire(st_lock, w)
    /\ st_lock' = st_lock \cup {w}
    /\ st_worker' = [st_worker EXCEPT ![w].at = "read"]
    /\ UNCHANGED <<st_pc, st_stats, st_accesses, st_report,
                   run_vars, db_vars, ex_vars, loc_vars, ck_vars,
                   rt_vars, mc_vars, eq_vars>>

\* `self.stats.x += 1`, first half: the attribute is read.
WorkerRead(w) ==
    /\ st_worker[w].at = "read"
    /\ st_worker' = [st_worker EXCEPT ![w].at = "write",
                                      ![w].local = st_stats[Head(st_worker[w].todo)]]
    /\ st_accesses' = st_accesses \cup {Access("increment", w)}
    /\ UNCHANGED <<st_pc, st_lock, st_stats, st_report,
                   run_vars, db_vars, ex_vars, loc_vars, ck_vars,
                   rt_vars, mc_vars, eq_vars>>

\* `self.stats.x += 1`, second half: the value read plus one is stored.
WorkerWrite(w) ==
    /\ st_worker[w].at = "write"
    /\ st_stats' = [st_stats EXCEPT ![Head(st_worker[w].todo)] = st_worker[w].local + 1]
    /\ st_worker' = [st_worker EXCEPT ![w].at = "release"]
    /\ st_accesses' = st_accesses \cup {Access("increment", w)}
    /\ UNCHANGED <<st_pc, st_lock, st_report, run_vars, db_vars, ex_vars, loc_vars, ck_vars,
                   rt_vars, mc_vars, eq_vars>>

\* The `with` block is left; process_image goes on to its next block or returns.
WorkerRelease(w) ==
    /\ st_worker[w].at = "release"
    /\ st_lock' = st_lock \ {w}
    /\ st_worker' = [st_worker EXCEPT ![w].todo = Tail(@),
                                      ![w].at = IF Len(st_worker[w].todo) = 1
                                                   THEN "done" ELSE "acquire"]
    /\ UNCHANGED <<st_pc, st_stats, st_accesses, st_report,
                   run_vars, db_vars, ex_vars, loc_vars, ck_vars,
                   rt_vars, mc_vars, eq_vars>>

\* The results of the batch, as process_batch returns them.
StatResults == [w \in PoolThreads |-> st_worker[w].result]

\* run() lines 326-332: process_batch has returned (the pool is joined); the batch totals
\* are added under the lock.
BatchTotals ==
    /\ st_pc = "batch"
    /\ \A w \in PoolThreads : st_worker[w].at = "done"
    /\ CanAcquire(st_lock, RunThread)
    /\ LET batch_success == BatchSuccess(StatResults)
       IN  st_stats' = [st_stats EXCEPT
                           !.processed_images = @ + Len(StatResults),
                           !.successful_images = @ + batch_success,
                           !.failed_images = @ + (Len(StatResults) - batch_success)]
    /\ st_accesses' = st_accesses \cup {[Access("totals", RunThread) EXCEPT !.locked = TRUE]}
    /\ st_pc' = "report"
    /\ UNCHANGED <<st_lock, st_worker, st_report, run_vars, db_vars, ex_vars, loc_vars, ck_vars,
                   rt_vars, mc_vars, eq_vars>>

\* run() line 385: return self.stats.to_dict().
StatsReport ==
    /\ st_pc = "report"
    /\ st_report' = st_stats
    /\ st_accesses' = st_accesses \cup {Access("to_dict", RunThread)}
    /\ st_pc' = "done"
    /\ UNCHANGED <<st_lock, st_stats, st_worker, run_vars, db_vars, ex_vars, loc_vars, ck_vars,
                   rt_vars, mc_vars, eq_vars>>

\* A BatchProcessor whose statistics hold the counts of an earlier run.
InitStats ==
    /\ RunUnused /\ DbUnused /\ ExtractIdle /\ LocateIdle
    /\ StoreIdle /\ RatingIdle /\ MemoryIdle /\ EquivIdle
    /\ st_pc = "reset"
    /\ st_lock = {}
    /\ st_stats \in {NewStats, [NewStats EXCEPT !.preview_found_count = 1,
                                                !.processed_images = 1,
                                                !.successful_images = 1]}
    /\ st_worker = [w \in PoolThreads |-> WorkerIdle]
    /\ st_accesses = {}
    /\ st_report = NewStats

NextStats ==
    \/ StatsReset
    \/ \E w \in PoolThreads, o \in Outcomes : WorkerStart(w, o)
    \/ \E w \in PoolThreads : WorkerAcquire(w)
    \/ \E w \in PoolThreads : WorkerRead(w)
    \/ \E w \in PoolThreads : WorkerWrite(w)
    \/ \E w \in PoolThreads : WorkerRelease(w)
    \/ BatchTotals
    \/ StatsReport

SpecStats == InitStats /\ [][NextStats]_vars

\* ------------------------------------------------------------ rating
\* rating IS NULL.
NullRating == -1

\* The ratings a record can carry in the catalog: NULL or 0..5 stars.
Ratings == {NullRating} \cup (0..5)

ScoreTenths == MinScoreTenths..MaxScoreTenths

\* round(aesthetic_score / 2) for a score of t tenths: Python rounds to the nearest
\* integer and a tie goes to the even one.
RoundHalfScore(t) ==
    LET q == t \div 20
        r == t % 20
    IN  IF r < 10 THEN q
        ELSE IF r > 10 THEN q + 1
        ELSE IF q % 2 = 0 THEN q ELSE q + 1

Max(a, b) == IF a > b THEN a ELSE b

\* lr_rating = min(5, max(0, int(round(aesthetic_score / 2))))
LrRating(t) == Min(5, Max(0, RoundHalfScore(t)))

\* Mutant of RatingUnset: every rating counts as unset.
RatingAlwaysUnset(current_rating) == TRUE

\* current_rating in (0, None)
RatingUnset(current_rating) == current_rating \in {0, NullRating}

\* CatalogDatabase._apply_aesthetic_score for a score of t tenths.
ApplyAestheticScore(t) ==
    /\ rt_calls < MaxRatingCalls
    /\ rt_rating' =
          IF ~rt_column THEN rt_rating
          ELSE IF ~rt_row THEN rt_rating
          ELSE IF RatingUnset(rt_rating) THEN LrRating(t)
          ELSE rt_rating
    /\ rt_last' = [before |-> rt_rating, score |-> t]
    /\ rt_calls' = rt_calls + 1
    /\ UNCHANGED <<rt_column, rt_row, run_vars, db_vars, ex_vars, loc_vars, ck_vars, st_vars,
                   mc_vars, eq_vars>>

InitRating ==
    /\ RunUnused /\ DbUnused /\ ExtractIdle /\ LocateIdle
    /\ StoreIdle /\ StatsIdle /\ MemoryIdle /\ EquivIdle
    /\ rt_column \in BOOLEAN
    /\ rt_row \in BOOLEAN
    /\ rt_rating \in Ratings
    /\ rt_calls = 0
    /\ rt_last = [before |-> rt_rating, score |-> 0]

NextRating == \E t \in ScoreTenths : ApplyAestheticScore(t)

SpecRating == InitRating /\ [][NextRating]_vars

\* ------------------------------------------------------------ memory check
\* What the probe of _check_memory_usage can do: psutil.Process(...).memory_info() returns
\* a sample, raises, or returns a sample and raises when sampled again after the cleanup.
Probes == {"ok", "raises", "second_raises"}

\* Mutant of MemoryHigh: the comparison is not strict.
MemoryHighOrEqual(mem_mb, memory_limit_mb) == mem_mb * 5 >= memory_limit_mb * 4

\* mem_mb > self.config.memory_limit_mb * 0.8
MemoryHigh(mem_mb, memory_limit_mb) == mem_mb * 5 > memory_limit_mb * 4

\* _check_memory_usage: whether clear_cache() is called, and whether an exception leaves
\* the method (the whole probe sits in try ... except Exception).
check_memory_usage(memory_limit_mb, probe, mem_mb) ==
    IF memory_limit_mb = 0 THEN [cleared |-> FALSE, raised |-> FALSE]
    ELSE IF probe = "raises" THEN [cleared |-> FALSE, raised |-> FALSE]
    ELSE [cleared |-> MemoryHigh(mem_mb, memory_limit_mb), raised |-> FALSE]

\* run() lines 317-362: one iteration of the batch loop; locating the previews of the
\* batch fills the cache, and the iteration ends with gc.collect() and the memory check.
BatchThenMemoryCheck(found, probe, mem_mb) ==
    /\ mc_batches < MaxCheckedBatches
    /\ LET filled == Min(MaxCacheEntries, mc_cache + found)
           r == check_memory_usage(mc_limit, probe, mem_mb)
       IN  /\ mc_cache' = IF r.cleared THEN 0 ELSE filled
           /\ mc_last' = [probe |-> probe, mem |-> mem_mb, cache |-> filled,
                          cleared |-> r.cleared, raised |-> r.raised]
    /\ mc_batches' = mc_batches + 1
    /\ mc_checks' = mc_checks + 1
    /\ UNCHANGED <<mc_limit, run_vars, db_vars, ex_vars, loc_vars, ck_vars, st_vars, rt_vars, eq_vars>>

InitMemory ==
    /\ RunUnused /\ DbUnused /\ ExtractIdle /\ LocateIdle
    /\ StoreIdle /\ StatsIdle /\ RatingIdle /\ EquivIdle
    /\ mc_limit \in 0..MaxLimitMb
    /\ mc_cache = 0
    /\ mc_batches = 0
    /\ mc_checks = 0
    /\ mc_last = [probe |-> "none", mem |-> 0, cache |-> 0, cleared |-> FALSE,
                  raised |-> FALSE]

NextMemory ==
    \E found \in 0..MaxBatchSize, probe \in Probes, mem_mb \in 0..MaxMemMb :
        BatchThenMemoryCheck(found, probe, mem_mb)

SpecMemory == InitMemory /\ [][NextMemory]_vars

\* ------------------------------------------------------------ sequential and pooled runs
\* Records of the compared runs.
EquivImages == 3

\* The per-item outcomes compared: every stage succeeds, no preview is found, the decoder
\* returns None, the AI call raises, the catalog write returns False.
EquivOutcomes ==
    {NoFault, [at |-> 1, how |-> "none"], [at |-> 2, how |-> "none"],
     [at |-> 4, how |-> "raise"], [at |-> 5, how |-> "none"]}

\* process_batch, sequential branch: the results of the batch, in the order of the records.
SequentialResults(batch, outs) ==
    [k \in 1..Len(batch) |-> Result(ProcessImage(batch[k], outs[batch[k]]))]

\* The increments the items of the batch make to self.stats, one process_image at a time.
RECURSIVE SequentialCounters(_, _, _)
SequentialCounters(s, batch, outs) ==
    IF batch = <<>> THEN s
    ELSE SequentialCounters(AddCounters(s, ProcessImage(Head(batch), outs[Head(batch)])),
                            Tail(batch), outs)

\* run() with max_workers = 1 from loop position offset on: the statistics, processed_ids
\* and the checkpoint file when it returns (every save succeeds).
RECURSIVE SequentialRun(_, _, _, _, _)
SequentialRun(cfg, imgs, outs, offset, st) ==
    IF offset >= Len(imgs)
      THEN [st EXCEPT !.file = SaveCheckpoint(cfg.use_checkpoint, @, st.ids, "ok")]
      ELSE LET batch == Batch(imgs, offset, cfg.batch_size)
               batch_results == SequentialResults(batch, outs)
               batch_success == BatchSuccess(batch_results)
               counted == SequentialCounters(st.stats, batch, outs)
               ids == IF cfg.use_checkpoint
                         THEN CheckpointAfterBatch(st.ids, batch_results)
                         ELSE st.ids
               flush == /\ cfg.use_checkpoint
                        /\ BatchNum(offset, cfg.batch_size) % cfg.checkpoint_interval = 0
           IN  SequentialRun(cfg, imgs, outs, offset + cfg.batch_size,
                  [stats |-> [counted EXCEPT
                                 !.processed_images = @ + Len(batch),
                                 !.successful_images = @ + batch_success,
                                 !.failed_images = @ + (Len(batch) - batch_success)],
                   ids |-> ids,
                   file |-> IF flush
                               THEN SaveCheckpoint(cfg.use_checkpoint, st.file, ids, "ok")
                               ELSE st.file])

\* run() after filtering: total_images is set, nothing is processed, the file is empty.
RunEntry(imgs) ==
    [stats |-> [ProcessingStats EXCEPT !.total_images = Len(imgs)], ids |-> {}, file |-> {}]

\* Mutant of PoolCollected: the pool records every completed task but the first of its
\* batch as an executor exception.
PoolCollectedFirstOnly(collected, r) ==
    IF collected = <<>> THEN Collected(r) ELSE ExecutorException(r.image_id)

\* `for future in as_completed(...)`: what is appended for a completed task.
PoolCollected(collected, r) == Collected(r)

\* run(): the next batch is sliced and process_batch submits one task per record.
PoolSubmit ==
    /\ eq_pc = "batch"
    /\ eq_todo' = Batch(eq_images, eq_i, eq_config.batch_size)
    /\ eq_results' = <<>>
    /\ eq_pc' = "process"
    /\ UNCHANGED <<eq_config, eq_images, eq_outcomes, eq_i, eq_running, eq_stats, eq_ids,
                   eq_file, eq_finished>>
    /\ UNCHANGED <<run_vars, db_vars, ex_vars, loc_vars, ck_vars, st_vars, rt_vars, mc_vars>>

\* A worker thread takes the next submitted task; at most max_workers run at a time.
PoolTaskStart ==
    /\ eq_pc = "process"
    /\ eq_todo # <<>>
    /\ Cardinality(eq_running) < eq_config.max_workers
    /\ eq_running' = eq_running \cup {Head(eq_todo)}
    /\ eq_todo' = Tail(eq_todo)
    /\ UNCHANGED <<eq_config, eq_images, eq_outcomes, eq_pc, eq_i, eq_results, eq_stats,
                   eq_ids, eq_file, eq_finished>>
    /\ UNCHANGED <<run_vars, db_vars, ex_vars, loc_vars, ck_vars, st_vars, rt_vars, mc_vars>>

\* A running task returns from process_image and its future is collected.
PoolTaskFinish(id) ==
    /\ eq_pc = "process"
    /\ id \in eq_running
    /\ LET r == ProcessImage(id, eq_outcomes[id])
       IN  /\ eq_stats' = AddCounters(eq_stats, r)
           /\ eq_results' = Append(eq_results, PoolCollected(eq_results, r))
    /\ eq_running' = eq_running \ {id}
    /\ eq_finished' = Append(eq_finished, id)
    /\ UNCHANGED <<eq_config, eq_images, eq_outcomes, eq_pc, eq_i, eq_todo, eq_ids, eq_file>>
    /\ UNCHANGED <<run_vars, db_vars, ex_vars, loc_vars, ck_vars, st_vars, rt_vars, mc_vars>>

\* run() lines 326-365 after the pooled process_batch has returned.
PoolBatchCollect ==
    /\ eq_pc = "process"
    /\ ProcessBatchReturns(eq_todo, eq_running)
    /\ LET batch == Batch(eq_images, eq_i, eq_config.batch_size)
           batch_success == BatchSuccess(eq_results)
           ids == IF eq_config.use_checkpoint
                     THEN CheckpointAfterBatch(eq_ids, eq_results)
                     ELSE eq_ids
           flush == /\ eq_config.use_checkpoint
                    /\ BatchNum(eq_i, eq_config.batch_size) % eq_config.checkpoint_interval = 0
       IN  /\ eq_stats' = [eq_stats EXCEPT !.processed_images = @ + Len(batch),
                                           !.successful_images = @ + batch_success,
                                           !.failed_images = @ + (Len(batch) - batch_success)]
           /\ eq_ids' = ids
           /\ eq_file' = IF flush
                            THEN SaveCheckpoint(eq_config.use_checkpoint, eq_file, ids, "ok")
                            ELSE eq_file
    /\ eq_i' = eq_i + eq_config.batch_size
    /\ eq_pc' = IF eq_i + eq_config.batch_size < Len(eq_images) THEN "batch" ELSE "final"
    /\ UNCHANGED <<eq_config, eq_images, eq_outcomes, eq_todo, eq_running, eq_results,
                   eq_finished>>
    /\ UNCHANGED <<run_vars, db_vars, ex_vars, loc_vars, ck_vars, st_vars, rt_vars, mc_vars>>

\* run() lines 367-370: the final checkpoint.
PoolFinalCheckpoint ==
    /\ eq_pc = "final"
    /\ eq_file' = SaveCheckpoint(eq_config.use_checkpoint, eq_file, eq_ids, "ok")
    /\ eq_pc' = "done"
    /\ UNCHANGED <<eq_config, eq_images, eq_outcomes, eq_i, eq_todo, eq_running, eq_results,
                   eq_stats, eq_ids, eq_finished>>
    /\ UNCHANGED <<run_vars, db_vars, ex_vars, loc_vars, ck_vars, st_vars, rt_vars, mc_vars>>

\* A pooled run over 1 to EquivImages remaining records, at the top of the batch loop.
InitEquiv ==
    /\ RunUnused /\ DbUnused /\ ExtractIdle /\ LocateIdle
    /\ StoreIdle /\ StatsIdle /\ RatingIdle /\ MemoryIdle
    /\ eq_config \in [use_checkpoint : BOOLEAN, max_workers : 2..MaxWorkers,
                       batch_size : 1..MaxBatchSize, checkpoint_interval : 1..MaxInterval]
    /\ \E n \in 1..EquivImages :
          /\ eq_images = [k \in 1..n |-> k]
          /\ eq_outcomes \in [1..n -> EquivOutcomes]
          /\ eq_stats = RunEntry(eq_images).stats
    /\ eq_pc = "batch"
    /\ eq_i = 0
    /\ eq_todo = <<>>
    /\ eq_running = {}
    /\ eq_results = <<>>
    /\ eq_ids = {}
    /\ eq_file = {}
    /\ eq_finished = <<>>

NextEquiv ==
    \/ PoolSubmit
    \/ PoolTaskStart
    \/ \E id \in 1..EquivImages : PoolTaskFinish(id)
    \/ PoolBatchCollect
    \/ PoolFinalCheckpoint

SpecEquiv == InitEquiv /\ [][NextEquiv]_vars

\* ====================================================================== claims
\* The candidate records the union of the two id sets removes, and those it leaves.
Removed == {k \in 1..Len(images) :
               images[k] \in already_processed_ids \cup checkpoint_processed_ids}
Kept == {k \in 1..Len(images) :
            images[k] \notin already_processed_ids \cup checkpoint_processed_ids}

InTodo(id) == \E k \in 1..Len(todo) : todo[k] = id

\* C1: once run() has filtered, no record whose id is in the union of the catalog's
\* already-tagged ids and the loaded checkpoint ids is handed to process_image (neither
\* queued, running nor called), skipped_images is the number of candidates the union
\* removed and total_images the number it left.
C1_ProcessedRecordsAreSkipped ==
    pc # "start" =>
        /\ \A id \in already_processed_ids \cup checkpoint_processed_ids :
              invoked[id] = 0 /\ id \notin running /\ ~InTodo(id)
        /\ stats.skipped_images = Cardinality(Removed)
        /\ stats.total_images = Cardinality(Kept)

\* C1 witness: a finished run that skipped a tagged record and a checkpointed one and
\* processed another.
C1_Witness ==
    /\ pc = "done"
    /\ already_processed_ids # {}
    /\ checkpoint_processed_ids \ already_processed_ids # {}
    /\ stats.skipped_images = 2
    /\ \E id \in Ids : invoked[id] = 1

\* C2: with checkpointing enabled and at least one record left after filtering, the set
\* the final save is given, and the file holds once that save has succeeded, is (already
\* tagged ids) + (ids loaded from the checkpoint) + (ids successful in this run); an id
\* processed in this run without success is never in the in-memory set.
C2_FinalCheckpointContents ==
    /\ (pc = "done" /\ config.use_checkpoint /\ stats.total_images > 0) =>
          /\ processed_ids =
                already_processed_ids \cup checkpoint_processed_ids \cup run_success
          /\ final_save = "ok" => checkpoint_file = processed_ids
    /\ (pc # "start" /\ config.use_checkpoint) =>
          \A id \in Ids : (invoked[id] > 0 /\ id \notin run_success) => id \notin processed_ids

\* C2 witness: a finished run with skipped ids from both sources, one success and one
\* failure, whose final save succeeded.
C2_Witness ==
    /\ pc = "done"
    /\ config.use_checkpoint
    /\ final_save = "ok"
    /\ already_processed_ids # {}
    /\ checkpoint_processed_ids # {}
    /\ run_success # {}
    /\ \E id \in Ids : invoked[id] = 1 /\ id \notin run_success

\* The finished first run had every remaining item successful.
FirstRunFull == second_run /\ previous_run.successful_images = previous_run.total_images

BatchDone == pc = "process" /\ todo = <<>> /\ running = {}

ResultsOf(id) == {k \in 1..Len(results) : results[k].image_id = id}

InRemaining(id) == \E k \in 1..Len(remaining) : remaining[k] = id

\* C5: whatever the per-item outcomes, batch size, checkpoint interval and worker count,
\* run() never aborts, always reaches its end, and at its end process_image has been called
\* exactly once for each remaining record and for no other, and the statistics returned
\* count every remaining record as processed, successful or failed.
C5_RunTerminates ==
    /\ [](pc # "aborted")
    /\ [](\A id \in Ids : invoked[id] <= 1)
    /\ [](pc = "done" =>
            /\ \A id \in Ids : invoked[id] = IF InRemaining(id) THEN 1 ELSE 0
            /\ stats.processed_images = stats.total_images
            /\ stats.successful_images + stats.failed_images = stats.total_images
            /\ stats.total_images = Len(remaining))
    /\ (pc = "start") ~> (pc = "done")

\* C5 witness: a finished run of two batches in which no item succeeded and one raised.
C5_Witness ==
    /\ pc = "done"
    /\ stats.total_images = NumImages
    /\ stats.failed_images = NumImages
    /\ stats.preview_extract_failures > 0
    /\ stats.ai_call_failures > 0
    /\ stats.db_update_failures > 0

\* The stage process_image records when stage k returns None / False.
FailureStage == <<"locate_preview", "extract_preview", "process_image", "ai_analysis",
                  "db_update">>

\* C6: process_image calls the stages in the fixed order locate, decode, prepare, analyze,
\* catalog write and stops at the first that fails: the calls made are exactly the stages up
\* to and including the failing one, the result is a failure whose stage names that stage
\* ('exception' when the stage raised before the catalog write), and with no failing stage
\* all five are called and the result is a success.
C6_FirstFailureEndsItem ==
    returned.image_id # 0 =>
        IF outcome.at = 0
           THEN /\ returned.success
                /\ returned.stage = "complete"
                /\ returned.calls = StageCalls
           ELSE /\ ~returned.success
                /\ returned.calls = SubSeq(StageCalls, 1, outcome.at)
                /\ returned.stage = IF Unexpected(outcome) THEN "exception"
                                    ELSE FailureStage[outcome.at]

\* C6 witness: prepare returned nothing, so analyze and the catalog write were not called.
C6_Witness ==
    /\ returned.image_id # 0
    /\ outcome = [at |-> 3, how |-> "none"]
    /\ Len(returned.calls) = 3

\* A call of process_image has returned (or raised) with its stages behaving as `outcome`.
ItemReturned == returned.image_id # 0

BatchOfPosition(n) == BatchNum(n - 1, config.batch_size)

\* The positions of the remaining records whose task has been started in this run.
StartedPositions == {n \in 1..Len(remaining) : invoked[remaining[n]] > 0}

\* The positions of the remaining records whose task is in flight.
RunningPositions == {n \in 1..Len(remaining) : remaining[n] \in running}

\* C18: batches are processed strictly in sequence. While the loop of run() is at offset i,
\* every task in flight belongs to the batch at that offset, no task of a later batch has
\* been started, nothing is in flight between two batches, and the statistics and the
\* in-memory checkpoint set already account for every earlier batch.
C18_BatchesStrictlySequential ==
    /\ running \subseteq {remaining[n] : n \in 1..Len(remaining)}
    /\ pc \in {"batch", "final", "done"} => running = {}
    /\ pc \in {"batch", "process"} =>
          /\ \A n \in RunningPositions : pc = "process" /\ BatchOfPosition(n) = BatchNum(i, config.batch_size)
          /\ \A n \in StartedPositions : BatchOfPosition(n) <= BatchNum(i, config.batch_size)
          /\ pc = "batch" => \A n \in StartedPositions : BatchOfPosition(n) < BatchNum(i, config.batch_size)
          /\ stats.processed_images = i
          /\ \A n \in 1..Len(remaining) :
                (/\ config.use_checkpoint
                 /\ remaining[n] \in run_success
                 /\ BatchOfPosition(n) < BatchNum(i, config.batch_size))
                => remaining[n] \in processed_ids

\* C18 witness: a pooled run has a task of its second batch in flight after a first batch
\* of two tasks.
C18_Witness ==
    /\ pc = "process"
    /\ config.max_workers > 1
    /\ config.batch_size = 2
    /\ i = 2
    /\ running # {}
    /\ stats.processed_images = 2

\* total_batches = (total_images + self.batch_size - 1) // self.batch_size
TotalBatches == (Len(remaining) + config.batch_size - 1) \div config.batch_size

\* The batches whose checkpoint step has run.
BatchesDone == IF pc \in {"final", "done"} THEN TotalBatches ELSE BatchNum(i, config.batch_size) - 1

\* The batch numbers up to n that are multiples of checkpoint_interval.
IntervalBatches(n) == {b \in 1..n : b % config.checkpoint_interval = 0}

\* C19 (as stated): with checkpointing enabled the checkpoint is saved after every batch
\* whose number is a multiple of checkpoint_interval, and once more at the end of every
\* run, a run with no remaining records included.
C19_Original ==
    config.use_checkpoint =>
        /\ pc \in {"batch", "final", "done"} => flushed_batches = IntervalBatches(BatchesDone)
        /\ pc = "done" => final_save # "none"

\* The run is at a batch boundary: batch number BatchesDone has gone through its
\* checkpoint step and the next batch has not been sliced.
AtBatchBoundary == pc \in {"batch", "final"}

AbsentUnreadableOrCorrupt == {"absent", "unreadable", "not_json", "not_iterable", "unhashable"}

\* C21: no checkpoint store call raises into its caller; load_checkpoint returns the empty
\* set when checkpointing is disabled or the file is absent, unreadable or corrupt;
\* save_checkpoint returns false when the write fails or checkpointing is disabled, and
\* such a save leaves the caller's in-memory set as it was and lets the caller go on.
C21_StoreNeverRaises ==
    /\ ~ck_last.raised
    /\ ck_last.op = "load" =>
          /\ (~ck_enabled \/ ck_last.file.kind \in AbsentUnreadableOrCorrupt)
                => ck_last.loaded = {}
          /\ ck_last.step_after = ck_last.step + 1
    /\ ck_last.op = "save" =>
          /\ (~ck_enabled \/ ck_last.write # "ok") =>
                /\ ck_last.saved = FALSE
                /\ ck_last.ids_after = ck_last.ids
          /\ ck_last.step_after = ck_last.step + 1
          /\ ~ck_enabled => ck_file = ck_last.file

\* C21 witness: an enabled store loaded a corrupt file as the empty set, and a later save
\* of a non-empty set failed in json.dump.
C21_Witness ==
    /\ ck_enabled
    /\ ck_last.op = "save"
    /\ ck_last.write = "dump_failed"
    /\ ck_last.saved = FALSE
    /\ ck_last.ids # {}
    /\ ck_last.file.kind \in AbsentUnreadableOrCorrupt \ {"absent"}
    /\ ck_step = 2

\* ---------------------------------------------------------------- statistics claims
\* The number of pool threads whose item has stage `stage` in its result.
ItemsAt(stages) == Cardinality({w \in PoolThreads : st_worker[w].result.stage \in stages})

\* The number of pool threads whose item got a path from locate_preview_file.
ItemsWithPreview ==
    Cardinality({w \in PoolThreads :
                    \E k \in 1..Len(st_worker[w].made) :
                        st_worker[w].made[k] = "preview_found_count"})

\* The counters equal the numbers of items that reached each outcome.
CountersExact(counters) ==
    /\ counters.preview_found_count = ItemsWithPreview
    /\ counters.preview_extract_failures = ItemsAt({"extract_preview"})
    /\ counters.ai_call_failures = ItemsAt({"ai_analysis"})
    /\ counters.db_update_failures = ItemsAt({"db_update"})

\* The pool is joined: process_batch has returned.
PoolJoined == st_pc \in {"report", "done"}

\* C22 (as stated): every access to the statistics is made with the mutex held, and after
\* the pool is joined no increment is lost.
C22_Original ==
    /\ \A a \in st_accesses : a.locked
    /\ PoolJoined => CountersExact(st_stats)

\* C22 (amended): the counter increments of the pool threads and the batch totals are made
\* with the mutex held, the mutex is held by one thread at a time, every access made
\* without it is made by the run thread while no pool thread is active, and once the pool
\* is joined each counter equals the number of items that reached its outcome, which is
\* also what run() reports.
C22_NoIncrementLost ==
    /\ Cardinality(st_lock) <= 1
    /\ \A a \in st_accesses :
          /\ a.what \in {"increment", "totals"} => a.locked
          /\ ~a.locked => ~a.concurrent
    /\ PoolJoined =>
          /\ CountersExact(st_stats)
          /\ st_stats.processed_images = MaxWorkers
          /\ st_stats.successful_images = ItemsAt({"complete"})
          /\ st_stats.failed_images = MaxWorkers - ItemsAt({"complete"})
    /\ st_pc = "done" => st_report = st_stats

\* C22 witness: every pool thread has made two increments (a preview found, a later stage
\* failed) and the run has reported.
C22_Witness ==
    /\ st_pc = "done"
    /\ \A w \in PoolThreads : Len(st_worker[w].made) = 2 /\ st_worker[w].at = "done"
    /\ st_report.preview_found_count = MaxWorkers
    /\ st_report.failed_images = MaxWorkers

\* ---------------------------------------------------------------- rating claims
\* n is an integer nearest to t / 20, the even one when two are equally near.
NearestToHalfScore(n, t) ==
    /\ 20 * n - t \in -10..10
    /\ 20 * n - t \in {-10, 10} => n % 2 = 0

\* round(score / 2) clamped to 0..5, for a score of t tenths.
ClampedHalfScore(t) ==
    LET n == CHOOSE k \in -10..20 : NearestToHalfScore(k, t)
    IN  IF n < 0 THEN 0 ELSE IF n > 5 THEN 5 ELSE n

\* C23: _apply_aesthetic_score leaves a rating that is neither 0 nor NULL as it is; a
\* rating of 0 or NULL is set to round(score / 2) clamped to 0..5.
C23_UserRatingKept ==
    rt_calls > 0 =>
        /\ rt_last.before \notin {0, NullRating} => rt_rating = rt_last.before
        /\ rt_rating # rt_last.before =>
              /\ rt_last.before \in {0, NullRating}
              /\ rt_rating = ClampedHalfScore(rt_last.score)
        /\ (rt_last.before \in {0, NullRating} /\ rt_column /\ rt_row) =>
              /\ rt_rating = ClampedHalfScore(rt_last.score)
              /\ rt_rating \in 0..5

\* C23 witness: a record rated 4 stars by the user kept its rating under a score that maps
\* to 1 star, after a first call that had set the rating.
C23_Witness ==
    /\ rt_calls = 2
    /\ rt_column /\ rt_row
    /\ rt_last.before = 4
    /\ rt_last.score = 20
    /\ rt_rating = 4

\* ---------------------------------------------------------------- memory claims
\* C24: the memory check runs once after every batch; it clears the preview location cache
\* exactly when a ceiling is configured, the probe gave a sample, and the sample is more
\* than 0.8 times the ceiling; no failure of the probe leaves the check.
C24_MemoryCheckClears ==
    /\ mc_checks = mc_batches
    /\ mc_batches > 0 =>
          /\ ~mc_last.raised
          /\ mc_last.cleared <=>
                (/\ mc_limit > 0
                 /\ mc_last.probe # "raises"
                 /\ 10 * mc_last.mem > 8 * mc_limit)
          /\ mc_last.cleared => mc_cache = 0
          /\ ~mc_last.cleared => mc_cache = mc_last.cache

\* C24 witness: with a ceiling of 5 MB a sample of exactly 4 MB left a filled cache alone.
C24_Witness ==
    /\ mc_batches > 0
    /\ mc_limit = 5
    /\ mc_last.probe = "ok"
    /\ mc_last.mem = 4
    /\ ~mc_last.cleared
    /\ mc_cache > 0

\* ---------------------------------------------------------------- decoder claims
Tried == {tried[k] : k \in 1..Len(tried)}

\* C12: when extract_jpeg_from_preview returns a bitmap that bitmap is open, whichever
\* decode step produced it, and when it returns None no bitmap opened during the call is
\* left open.
\* Violated: strategy 2 binds the image it opens to img and returns it, and the finally
\* clause closes img before the caller gets it.
C12_Original ==
    ex_pc = "returned" =>
        /\ ex_result = "bitmap" => bitmaps[returned_bitmap].open
        /\ ex_result = "None" => \A k \in 1..Len(bitmaps) : ~bitmaps[k].open

\* The decode steps that apply to a file of this kind with this header.
Applicable(kind, head) ==
    (IF head = "jpeg" THEN {"direct_jpeg"} ELSE {})
    \cup {"direct_image", "jpeg_scan", "final_open"}
    \cup (IF kind = ".lrprev" THEN {"lrprev"} ELSE {})
    \cup (IF kind = ".dng" THEN {"dng_rawpy", "dng_pil"} ELSE {})

\* C13: extract_jpeg_from_preview reports failure for a readable, non-empty file only
\* after every applicable decode step was attempted (a failed .lrprev scan is followed by
\* the embedded-JPEG scan and the final open).
\* Violated: a failure of the direct JPEG decode, of the .lrprev scan, of the .dng PIL
\* fallback or an exception of the embedded-JPEG scan returns None at once.
C13_Original ==
    (ex_pc = "returned" /\ ex_result = "None" /\ header \in {"jpeg", "other"}) =>
        Applicable(preview_kind, header) \subseteq Tried

\* ---------------------------------------------------------------- location claims
\* The latest two locate calls were made with no file removed and no clear in between.
TwoCallsFixed == prev_call.n > 0 /\ last_call.fixed

\* The enabled strategies with index at most n, in order.
EnabledUpTo(n) ==
    SelectSeq([k \in 1..n |-> Strategies[k]],
              LAMBDA name : \E k \in 1..n :
                  Strategies[k] = name /\ StrategyEnabled(k, loc_config, record))

\* C14 as stated: the second of two such calls returns the same path and invokes no
\* strategy.
C14_Original ==
    TwoCallsFixed => last_call.path = prev_call.path /\ last_call.invoked = <<>>

\* C14: the second of two locate calls on the record, with no file removed and no clear
\* in between, returns what the first returned; when the first found a path the second
\* is a cache hit and invokes no strategy; when the first found none nothing was cached
\* and the second invokes every enabled strategy again.
C14_SecondCallServedFromCache ==
    TwoCallsFixed =>
        /\ last_call.path = prev_call.path
        /\ prev_call.path # NoPath => last_call.hit /\ last_call.invoked = <<>>
        /\ prev_call.path = NoPath =>
              ~last_call.hit /\ last_call.invoked = EnabledUpTo(Len(Strategies))

\* C14 witness: a miss that found a path, then a hit returning it.
C14_Witness ==
    /\ TwoCallsFixed
    /\ ~prev_call.hit
    /\ prev_call.invoked # <<>>
    /\ prev_call.path # NoPath
    /\ last_call.hit
    /\ last_call.path = prev_call.path
    /\ cache_hits = 1

\* What strategy k yields for the files as they are.
Yields(k) == StrategyResult(k, fs, preview_index, hash_lru)

Winners == {k \in 1..Len(Strategies) :
               StrategyEnabled(k, loc_config, record) /\ Yields(k) # NoPath}

FirstWinner == CHOOSE k \in Winners : \A j \in Winners : k <= j

\* The latest locate call was a miss and no file was removed since.
MissJustSearched == last_call.n > 0 /\ ~last_call.hit /\ unchanged_since

\* C15: a locate call that misses the cache returns the result of the first strategy, in
\* source order, that is enabled and yields a path, and has invoked exactly the enabled
\* strategies up to that one (all of them, returning nothing, when none yields a path).
C15_FirstEnabledStrategyWins ==
    MissJustSearched =>
        IF Winners = {}
          THEN /\ last_call.path = NoPath
               /\ last_call.invoked = EnabledUpTo(Len(Strategies))
          ELSE /\ last_call.path = Yields(FirstWinner)
               /\ last_call.invoked = EnabledUpTo(FirstWinner)

\* C15 witness: a file-global-id match and a basename match both exist; the former is
\* returned and the basename strategy was not invoked.
C15_Witness ==
    /\ MissJustSearched
    /\ fs["file_global_id"] # <<>>
    /\ preview_index # <<>>
    /\ fs["basename"] = preview_index
    /\ last_call.path.key = "file_global_id"
    /\ last_call.invoked = <<"file_global_id">>

\* The candidates the answering strategy saw.
SeenBy(key) == IF key = "basename" THEN preview_index ELSE fs[key]

\* C16: when the global-id, preview-database or basename strategy answers a locate call,
\* the path returned has the highest resolution rank among the candidates that strategy
\* saw, whatever their order in the walk.
\* Violated: find_preview_by_basename returns the first candidate of the index.
C16_Original ==
    (MissJustSearched
       /\ last_call.path.key \in {"file_global_id", "preview_db", "image_global_id", "basename"}) =>
        \A k \in 1..Len(SeenBy(last_call.path.key)) :
            get_preview_resolution_rank(SeenBy(last_call.path.key)[k])
                <= get_preview_resolution_rank(last_call.path.suffix)

\* A search of the files as they are with nothing remembered by find_preview_by_hash.
FreshSearch ==
    Search(1, [path |-> NoPath, invoked |-> <<>>, searched |-> <<>>,
               lru |-> [set |-> FALSE, value |-> NoPath]],
           loc_config, record, fs, preview_index)

\* C17: after clear_cache the cache has no entry and both counters are zero, and the
\* first locate after a clear searches the files as they are: it is a miss, every
\* strategy it invokes runs its search, and it returns what a search that remembers
\* nothing returns.
\* Violated: the lru_cache of find_preview_by_hash outlives clear_cache.
C17_Original ==
    /\ cleared_since => preview_cache = NoPath /\ cache_hits = 0 /\ cache_misses = 0
    /\ (last_call.after_clear /\ unchanged_since) =>
          /\ ~last_call.hit
          /\ last_call.searched = last_call.invoked
          /\ last_call.path = FreshSearch.path

\* ---------------------------------------------------------------- gateway claims
Attempts == 1..Len(attempt_log)

AllAttemptsLocked ==
    /\ attempt_log # <<>>
    /\ \A k \in Attempts : attempt_log[k].error = LockError

NonDecreasing(w) == \A k \in 1..(Len(w) - 1) : w[k] <= w[k + 1]

\* C7: a cursor() call whose every attempt fails with 'database is locked' makes
\* retries + 1 attempts (retries retries), then raises an error that carries the lock
\* error (the lock error itself, or the RuntimeError of _connect quoting it), and its
\* waits never decrease.
\* Violated: a lock error raised inside _connect ends the call after that attempt,
\* whatever number of retries is left.
C7_Original ==
    (db_pc = "returned" /\ AllAttemptsLocked) =>
        /\ Len(attempt_log) = retries + 1
        /\ retry_count = retries
        /\ db_error \in {LockError, ConnectFailed}
        /\ NonDecreasing(waits)

\* The with-body or the commit failed with the lock error while retries were left.
LockedInScopeWithRetriesLeft ==
    \E k \in Attempts :
        /\ attempt_log[k].phase \in {"body", "commit"}
        /\ attempt_log[k].error = LockError
        /\ attempt_log[k].retry_count < retries

\* The database raised nothing but lock errors, and none inside _connect.
OnlyLockErrors ==
    \A k \in Attempts :
        /\ attempt_log[k].error \notin {SqliteError, PythonError}
        /\ attempt_log[k].phase # "connect"

\* C8: when a statement of the scope or its commit fails with the lock error while
\* retries remain, the caller sees a committed transaction or, once the retries are used
\* up, the lock error, and no error of another kind.
\* Violated: the generator yields a second time and the caller gets RuntimeError.
C8_Original ==
    (db_pc = "returned" /\ LockedInScopeWithRetriesLeft /\ OnlyLockErrors) =>
        \/ db_error = NoError
        \/ db_error = LockError /\ retry_count = retries

BodyRaised(k) ==
    /\ attempt_log[k].phase = "body"
    /\ attempt_log[k].error \in {SqliteError, PythonError}

BodyCompleted == yields >= 1 /\ \A k \in Attempts : attempt_log[k].phase # "body"

\* C9: conn.commit() is never called twice; a scope whose body completed has called it
\* exactly once when cursor() is left, and if that commit succeeded every statement the
\* body applied is committed and no error leaves; a scope whose body raised an error other
\* than the lock error is rolled back once, no attempt follows the failed one (it is the
\* only attempt unless BEGIN was retried before), nothing is committed and the same error
\* leaves cursor().
C9_CommitOnceRollbackNoRetry ==
    /\ commit_calls <= 1
    /\ (db_pc = "returned" /\ BodyCompleted) =>
          /\ commit_calls = 1
          /\ (\E k \in Attempts : attempt_log[k] = Attempt("commit", NoError)) =>
                /\ committed = (1..Len(Body(caller))) \ swallowed
                /\ rollbacks = 0
                /\ db_error = NoError
    /\ \A k \in Attempts : BodyRaised(k) =>
          /\ k = Len(attempt_log)
          /\ Len(attempt_log) = attempt_log[k].retry_count + 1
          /\ retry_count = attempt_log[k].retry_count
          /\ db_pc = "returned"
          /\ rollbacks = 1
          /\ commit_calls = 0
          /\ committed = {}
          /\ yields = 1
          /\ db_error = attempt_log[k].error

\* C9 witness: after one retried BEGIN the third sub-write of update_image_metadata raised
\* a database error that is no lock error, with retries left.
C9_Witness ==
    /\ db_pc = "returned"
    /\ caller = "update_image_metadata"
    /\ Len(attempt_log) = 2
    /\ attempt_log[1] = [phase |-> "begin", error |-> LockError, retry_count |-> 0]
    /\ attempt_log[2] = [phase |-> "body", error |-> SqliteError, retry_count |-> 1]
    /\ step = 3
    /\ rollbacks = 1
    /\ db_error = SqliteError
    /\ db_result = "False"

DatabaseErrorInSubWrite ==
    \/ swallowed # {}
    \/ \E k \in Attempts :
          attempt_log[k].phase = "body" /\ attempt_log[k].error \in {LockError, SqliteError}

\* C10: after a call of update_image_metadata either all four sub-writes are committed or
\* none is, and a database error raised in a sub-write leaves nothing committed and makes
\* the call report failure.
\* Violated: _store_structured_metadata swallows its database error, the other three
\* sub-writes are committed and the call returns True.
C10_Original ==
    (db_pc = "returned" /\ caller = "update_image_metadata") =>
        /\ committed \in {{}, 1..Len(Body(caller))}
        /\ DatabaseErrorInSubWrite => committed = {} /\ db_result # "True"

\* C25 (as stated): the wait after failed attempt number k - 1 (attempts counted from 0)
\* is 0.5 s x 2^(k - 1): 0.5 s, 1 s, 2 s, ...  (waits are in half seconds).
C25_Original == \A k \in 1..Len(waits) : waits[k] = 2 ^ (k - 1)

\* C25 (amended): the wait before retry number k (k = 1, 2, ...) is 0.5 s x 2^k: 1 s, 2 s,
\* 4 s, ..., each wait double the previous one.
C25_BackoffDoubles ==
    /\ \A k \in 1..Len(waits) : waits[k] = 2 ^ k
    /\ \A k \in 1..(Len(waits) - 1) : waits[k + 1] = 2 * waits[k]
    /\ Len(waits) = retry_count

\* C25 witness: three retries have been waited for: 1 s, 2 s, 4 s.
C25_Witness == waits = <<2, 4, 8>>

\* cursor() has been entered and has not been left.
InCursor == db_pc \in {"connect", "begin", "body", "commit"}

\* C26 (as stated): for every configuration the retry budget of a metadata write is
\* strictly higher than the budget of a read, which is the configured max_retries.
C26_Original ==
    InCursor =>
        /\ caller = "update_image_metadata" => retries > max_retries
        /\ caller = "get_processed_images" => retries = max_retries /\ retries < UpdateRetries

\* C27 (as stated): at most one connection of a cursor() call is open at any time, and
\* every connection the call opened has been closed when the call returns or raises.
C27_Original ==
    /\ opened - closed <= 1
    /\ db_pc = "returned" => opened = closed

\* conn.commit() of the call returned without an exception.
UpdateCommitted ==
    \E k \in Attempts : attempt_log[k].phase = "commit" /\ attempt_log[k].error = NoError

\* What stage 5 of process_image sees when update_image_metadata ended with value:
\* True, False, or an exception.
WriteOutcome(value) ==
    IF value = "True" THEN NoFault
    ELSE IF value = "raised" THEN [at |-> Len(StageCalls), how |-> "raise"]
    ELSE [at |-> Len(StageCalls), how |-> "none"]

\* The result process_image returns for the record whose metadata write just ended.
ItemResultOfWrite == Result(ProcessImage(1, WriteOutcome(db_result)))

\* C28: the result of an item has success = true only if the transaction of its
\* update_image_metadata call committed, and run() adds the id to processed_ids only then.
C28_SuccessOnlyIfCommitted ==
    (db_pc = "returned" /\ caller = "update_image_metadata") =>
        /\ ItemResultOfWrite.success => UpdateCommitted /\ db_result = "True"
        /\ 1 \in CheckpointAfterBatch({}, <<ItemResultOfWrite>>) => UpdateCommitted

\* A write that commits after a retried lock error at BEGIN gives a successful result.
C28_Witness ==
    /\ db_pc = "returned"
    /\ caller = "update_image_metadata"
    /\ retry_count >= 1
    /\ ItemResultOfWrite.success
    /\ 1 \in CheckpointAfterBatch({}, <<ItemResultOfWrite>>)

\* run() is between two batches, after the last batch, or has returned.
BetweenBatches == pc \in {"batch", "final", "done"}

\* The sum of the per-stage failure counters.
StageFailures ==
    stats.preview_extract_failures + stats.ai_call_failures + stats.db_update_failures

\* C29: at every batch boundary processed_images = successful_images + failed_images,
\* processed_images <= total_images, the per-stage failure counters sum to at most
\* failed_images and preview_found_count <= processed_images; when the loop has ended
\* processed_images = total_images.
C29_CountersConsistent ==
    /\ BetweenBatches =>
          /\ stats.processed_images = stats.successful_images + stats.failed_images
          /\ stats.processed_images <= stats.total_images
          /\ StageFailures <= stats.failed_images
          /\ stats.preview_found_count <= stats.processed_images
    /\ pc \in {"final", "done"} => stats.processed_images = stats.total_images

\* After the first batch of two, with a third record left: one item failed at the AI call
\* and one before a preview was found, which no stage counter records.
C29_Witness ==
    /\ pc = "batch"
    /\ stats.total_images = 3
    /\ stats.processed_images = 2
    /\ stats.failed_images = 2
    /\ stats.ai_call_failures = 1
    /\ stats.preview_found_count = 1
    /\ StageFailures = 1

\* What the sequential run over the same records and outcomes ends with.
SequentialEnd == SequentialRun(eq_config, eq_images, eq_outcomes, 0, RunEntry(eq_images))

\* C30: a pooled run ends, under every interleaving and completion order of its tasks,
\* with the statistics counters and the persisted checkpoint set of the sequential run
\* over the same remaining records and per-item outcomes.
C30_PooledEqualsSequential ==
    eq_pc = "done" =>
        /\ eq_stats = SequentialEnd.stats
        /\ eq_file = SequentialEnd.file

\* A finished pooled run whose first batch completed in reverse order, with one success
\* and one failure in it, and checkpointing on.
C30_Witness ==
    /\ eq_pc = "done"
    /\ eq_config.use_checkpoint
    /\ Len(eq_finished) = 3
    /\ eq_finished[1] = 2
    /\ eq_finished[2] = 1
    /\ eq_outcomes[1] = NoFault
    /\ eq_outcomes[2] # NoFault
    /\ eq_file # {}

====
